---- MODULE Spec2Model ----
(***************************************************************************)
(* Model of the button gesture classifier (key_task), the message queues   *)
(* it feeds, and the servo door coordinator (servo_task) with its          *)
(* auto-close timer and double-click escalation counter.                   *)
(*                                                                         *)
(* Time is counted in FreeRTOS ticks.  Tick counts are unsigned            *)
(* (TickType_t): sums and differences are taken modulo 2^TickBits.  The    *)
(* code's TickType_t is 32 bits wide; TLC's integers are 32-bit signed, so *)
(* the model keeps the wrap-around arithmetic on a narrower counter.       *)
(***************************************************************************)
EXTENDS Integers, Sequences, FiniteSets, TLC

(***************************************************************************)
(* Program constants                                                       *)
(***************************************************************************)
KEY_SCAN_INTERVAL_MS == 10

LONG_PRESS_TIME_MS == 1000

DOUBLE_CLICK_INTERVAL_MS == 300
\* the maximum press time of a single click, of the key task in msg_queue.c
CLICK_MAX_TIME_MS == 500

MSG_QUEUE_LEN == 10
\* timeout_ms of the convenience senders (msg_send_led, msg_send_key)
SEND_TIMEOUT_MS == 100

KEY_GPIO == 2

SERVO_ANGLE_POS1 == 135

SERVO_ANGLE_POS2 == 80

OPEN_TIME == 2000

SERVO_MAX_ANGLE == 180

SERVO_STEP_DELAY_MS == 20

SERVO_STEP_ANGLE == 2

DOUBLE_CLICK_RESET_TIMEOUT_MS == 2000

DOUBLE_CLICK_TRIGGER_COUNT == 2

\* Tick rate of the kernel (ESP-IDF default, CONFIG_FREERTOS_HZ).
configTICK_RATE_HZ == 100

\* Length of the timer command queue (ESP-IDF default,
\* CONFIG_FREERTOS_TIMER_QUEUE_LENGTH).
configTIMER_QUEUE_LENGTH == 10

(***************************************************************************)
(* Bounds of the model                                                     *)
(***************************************************************************)
\* Number of polls of the key task that a behaviour contains.
MaxPolls == 6

\* Width of the model's tick counter.
TickBits == 16

\* Number of messages the producers put on QUEUE_PWM in a behaviour of the
\* servo task.
MaxMsgs == 2

\* Last tick a behaviour of the servo task reaches.
MaxTime == 340

\* Polls after which a fair behaviour of the key task starts no new gesture.
MaxFairPolls == 4

\* DoubleClicks of the button in a behaviour of the escalation.
MaxClicks == 22

\* msg_queue_send calls in a behaviour of the message fabric.
MaxSends == 4

\* Largest queue depth the message fabric is built with.
MaxQueueLen == 2

(***************************************************************************)
(* Tick arithmetic                                                         *)
(***************************************************************************)
TickModulus == 2^TickBits

pdMS_TO_TICKS(ms) == (ms * configTICK_RATE_HZ) \div 1000

TickSub_Signed(a, b) == a - b

\* a - b on TickType_t
TickSub(a, b) == (a - b) % TickModulus

\* a + b on TickType_t
TickAdd(a, b) == (a + b) % TickModulus

(***************************************************************************)
(* Messages (msg_t): the discriminant `type` and the payload fields; the   *)
(* payload fields a constructor does not set are zero.                     *)
(***************************************************************************)
KeyMsg(gpio, ev) ==
    [type |-> "KEY", gpio_num |-> gpio, event |-> ev, angle |-> 0, cmd |-> "NONE"]

\* xQueueSend through msg_queue_send: the message is copied to the back of
\* the queue when there is room; a queue that stays full for the whole
\* timeout makes the send fail and the message is dropped.
msg_queue_send(queue, msg) ==
    IF Len(queue) < MSG_QUEUE_LEN THEN Append(queue, msg) ELSE queue

msg_send_key(queue, gpio, ev) == msg_queue_send(queue, KeyMsg(gpio, ev))

PwmMsg(ev, angle) ==
    [type |-> "PWM", gpio_num |-> 0, event |-> ev, angle |-> angle, cmd |-> "NONE"]

MqttMsg(cmd) ==
    [type |-> "MQTT", gpio_num |-> 0, event |-> "NONE", angle |-> 0, cmd |-> cmd]

WifiMsg(cmd) ==
    [type |-> "WIFI", gpio_num |-> 0, event |-> "NONE", angle |-> 0, cmd |-> cmd]

LedMsg ==
    [type |-> "LED", gpio_num |-> 0, event |-> "NONE", angle |-> 0, cmd |-> "NONE"]

\* The convenience senders of msg_queue.h: build the message and send it to
\* the queue of the consumer.
msg_send_key_event(queue, gpio, ev) == msg_queue_send(queue, KeyMsg(gpio, ev))

msg_send_pwm_open_door(queue) == msg_queue_send(queue, PwmMsg("OPEN_DOOR", 0))

msg_send_pwm_set_angle(queue, angle) == msg_queue_send(queue, PwmMsg("SET_ANGLE", angle))

msg_send_mqtt_door_cmd(queue, cmd) == msg_queue_send(queue, MqttMsg(cmd))

msg_send_to_wifi(queue, cmd) == msg_queue_send(queue, WifiMsg(cmd))

VARIABLES
    \* ---- key_task locals ----
    state,              \* key_state_t
    last_key_level,     \* level sampled by the previous poll (1 = released)
    press_start_tick,
    release_tick,
    long_press_sent,
    current_tick,       \* xTaskGetTickCount()
    \* ---- queues ----
    led_queue,          \* params->led_queue
    pwm_queue,          \* params->pwm_queue / QUEUE_PWM
    has_pwm_queue,      \* params->pwm_queue != NULL
    \* ---- history of the key task ----
    polls,              \* polls done so far
    key_log,            \* every msg_send_key call: event, queue, tick, poll
    press_mark,         \* Len(key_log) when the latest falling edge was sampled
    gesture_mark        \* Len(key_log) when the current gesture started

VARIABLES
    \* ---- servo_task ----
    dcc_count,          \* double_click_counter.count
    dcc_last_tick,      \* double_click_counter.last_tick
    s_door_open,
    s_current_angle,
    srv_pc,             \* where servo_task is: "recv", or inside servo_set_angle
                        \* called by an open, a close or a set-angle
    srv_target,         \* target_angle of the call servo_task is in
    srv_wake,           \* tick at which its vTaskDelay ends
    wifi_queue,         \* QUEUE_WIFI
    \* ---- s_close_door_timer and the timer service task ----
    tmr_active,
    tmr_expiry,
    tmr_period,
    tmr_cmds,           \* the timer command queue
    tmr_pc,             \* "wait", or "cb_move": inside servo_set_angle called
                        \* by close_door_timer_callback
    tmr_wake,
    \* ---- history of the servo task ----
    injected,           \* messages sent to QUEUE_PWM so far
    mqtt_log,           \* every ha_mqtt_publish_door_state call
    dcc_trace,          \* every DoubleClick handled
    armed_tick,         \* tick of the latest xTimerStart
    quiet,              \* the latest open ended with no earlier deadline
                        \* outstanding and no message was received since
    close_in_time       \* the latest opening was closed by a Close handled
                        \* before the deadline

keyVars == <<state, last_key_level, press_start_tick, release_tick,
             long_press_sent, led_queue, polls, key_log, press_mark,
             gesture_mark, has_pwm_queue>>

counterVars == <<dcc_count, dcc_last_tick, wifi_queue, dcc_trace>>

doorVars == <<s_door_open, s_current_angle, mqtt_log, armed_tick, close_in_time>>

taskVars == <<srv_pc, srv_target, srv_wake>>

timerVars == <<tmr_active, tmr_expiry, tmr_period, tmr_pc, tmr_wake>>

servoVars == <<counterVars, doorVars, taskVars, timerVars, tmr_cmds, injected, quiet>>

VARIABLES
    \* ---- app_main and the channel of led_task ----
    app_pc,             \* where app_main is
    gener_queue,        \* s_gener_queue: the handle msg_queue_init returned
    action_queue,       \* s_action_queue
    created,            \* tasks created so far
    items,              \* messages waiting in s_gener_queue
    led_state,          \* led_state of the main loop
    snd,                \* each producer: idle, or blocked inside xQueueSend
    rcv_pc,             \* led_task: "run", or "recv" inside xQueueReceive
    rcv_waited,         \* ticks led_task has been blocked with a finite timeout
    \* ---- history of the channel ----
    depths,             \* queue_len of every msg_queue_init call
    calls,              \* msg_queue_send calls so far
    sent_log,           \* messages whose send returned true, in that order
    recv_log,           \* messages msg_queue_receive returned, in that order
    drop_log            \* sends that returned false: producer, message, ticks waited

VARIABLES
    \* ---- led_task ----
    leds                \* red_led_state, green_led_state and the levels of the
                        \* LED pins

VARIABLES
    \* ---- wifi_manager and mqtt_start_task ----
    wifi_bits,          \* the bits of s_wifi_event_group
    sc_pc,              \* smartconfig_task: "none", "start", "call", "wait",
                        \* "woken" or "deleted"
    sc_uxBits,          \* uxBits of smartconfig_task
    sta,                \* the station: "down", "idle", "connecting", "got_ip"
    mqtt_pc,            \* mqtt_start_task: "poll", "delay" or "started"
    wifi_events         \* events and commands delivered so far

wifiVars == <<wifi_bits, sc_pc, sc_uxBits, sta, mqtt_pc, wifi_events>>

VARIABLES
    \* ---- a task calling servo_set_angle on its own ----
    mv_pc,              \* "idle", or "loop": at the loop test of servo_set_angle
    mv_arg,             \* the target_angle argument of the call
    mv_calls,           \* calls made so far
    \* ---- the Bluetooth command parser ----
    bt_buffer,          \* s_cmd_buffer.buffer[0 .. len-1]
    bt_stream,          \* every byte received so far, in order
    bt_hits,            \* handle_odtc_command calls so far
    bt_writes           \* writes received so far

moveVars == <<mv_pc, mv_arg, mv_calls>>

btVars == <<bt_buffer, bt_stream, bt_hits, bt_writes>>

extVars == <<moveVars, btVars>>

chanVars == <<app_pc, gener_queue, action_queue, created, items, led_state, snd,
              rcv_pc, rcv_waited, depths, calls, sent_log, recv_log, drop_log>>

fabVars == <<chanVars, leds>>

vars == <<keyVars, current_tick, pwm_queue, servoVars, fabVars, wifiVars, extVars>>

(***************************************************************************)
(* key_task: one iteration of the scan loop                                *)
(***************************************************************************)
IsLongPress_Strict(press_duration) ==
    press_duration > pdMS_TO_TICKS(LONG_PRESS_TIME_MS)

\* press_duration >= pdMS_TO_TICKS(LONG_PRESS_TIME_MS)
IsLongPress(press_duration) ==
    press_duration >= pdMS_TO_TICKS(LONG_PRESS_TIME_MS)

LongPressDue_NoLatch(press_duration, sent) == IsLongPress(press_duration)

\* the guard of the long-press report while the key is held
LongPressDue(press_duration, sent) ==
    IsLongPress(press_duration) /\ ~sent

WithinDoubleClick_Strict(interval) ==
    interval < pdMS_TO_TICKS(DOUBLE_CLICK_INTERVAL_MS)

\* interval <= pdMS_TO_TICKS(DOUBLE_CLICK_INTERVAL_MS)
WithinDoubleClick(interval) ==
    interval <= pdMS_TO_TICKS(DOUBLE_CLICK_INTERVAL_MS)

WaitExpired_Inclusive(wait_duration) ==
    wait_duration >= pdMS_TO_TICKS(DOUBLE_CLICK_INTERVAL_MS)

\* wait_duration > pdMS_TO_TICKS(DOUBLE_CLICK_INTERVAL_MS)
WaitExpired(wait_duration) ==
    wait_duration > pdMS_TO_TICKS(DOUBLE_CLICK_INTERVAL_MS)

\* The state after a release sampled in PRESSED.  The key task of
\* msg_queue.c tests the press duration against CLICK_MAX_TIME_MS as well and
\* enters WAIT_SECOND in both branches; the one of key_task.c has the long
\* press test only.
AfterRelease(press_duration) ==
    IF IsLongPress(press_duration)
    THEN "IDLE"
    ELSE IF press_duration <= pdMS_TO_TICKS(CLICK_MAX_TIME_MS)
    THEN "WAIT_SECOND"
    ELSE "WAIT_SECOND"

LateSecondPressStart_Kept(ps, now) == ps

\* press_start_tick = current_tick, for a second press that comes after the
\* double-click interval
LateSecondPressStart(ps, now) == now

HasPwmQueue_Unchecked(present) == TRUE

HasPwmQueue_Absent(present) == FALSE

\* params->pwm_queue != NULL
HasPwmQueue(present) == present

\* The switch of key_task.  The result holds the new values of the locals
\* and `out`, the msg_send_key calls of this iteration (queue and event).
KeyStep(st, last, cur, ps, rt, lps, now) ==
    LET same == [state |-> st, press_start_tick |-> ps, release_tick |-> rt,
                 long_press_sent |-> lps, out |-> <<>>]
    IN
    CASE st = "IDLE" ->
           IF cur = 0 /\ last = 1
           THEN [same EXCEPT !.press_start_tick = now,
                             !.long_press_sent = FALSE,
                             !.state = "PRESSED"]
           ELSE same
      [] st = "PRESSED" ->
           IF cur = 1 /\ last = 0
           THEN IF AfterRelease(TickSub(now, ps)) = "IDLE"
                THEN [same EXCEPT !.state = "IDLE"]
                ELSE [same EXCEPT !.release_tick = now,
                                  !.state = AfterRelease(TickSub(now, ps))]
           ELSE IF cur = 0
           THEN IF LongPressDue(TickSub(now, ps), lps)
                THEN [same EXCEPT !.out = <<[queue |-> "led", event |-> "LONG_PRESS"]>>,
                                  !.long_press_sent = TRUE]
                ELSE same
           ELSE same
      [] st = "WAIT_SECOND" ->
           IF cur = 0 /\ last = 1
           THEN IF WithinDoubleClick(TickSub(now, rt))
                THEN [same EXCEPT !.press_start_tick = now,
                                  !.state = "DOUBLE_PRESSED"]
                ELSE [same EXCEPT !.out = <<[queue |-> "led", event |-> "SINGLE_CLICK"]>>,
                                  !.press_start_tick = LateSecondPressStart(ps, now),
                                  !.long_press_sent = FALSE,
                                  !.state = "PRESSED"]
           ELSE IF cur = 1
           THEN IF WaitExpired(TickSub(now, rt))
                THEN [same EXCEPT !.out = <<[queue |-> "led", event |-> "SINGLE_CLICK"]>>,
                                  !.state = "IDLE"]
                ELSE same
           ELSE same
      [] st = "DOUBLE_PRESSED" ->
           IF cur = 1 /\ last = 0
           THEN [same EXCEPT !.out = IF HasPwmQueue(has_pwm_queue)
                                      THEN <<[queue |-> "pwm", event |-> "DOUBLE_CLICK"]>>
                                      ELSE <<>>,
                             !.state = "IDLE"]
           ELSE same
      [] OTHER -> [same EXCEPT !.state = "IDLE"]

\* The sends of one iteration applied to one of the two queues.
QueueAfter(queue, name, out) ==
    IF out # <<>> /\ out[1].queue = name
    THEN msg_send_key(queue, KEY_GPIO, out[1].event)
    ELSE queue

\* Time between two polls the model represents: the scan interval, or as
\* many scan intervals as make up the double-click window or the long-press
\* time (polls in between that sample the same level and cross no threshold
\* change nothing).
ScanDelays ==
    { pdMS_TO_TICKS(KEY_SCAN_INTERVAL_MS),
      pdMS_TO_TICKS(DOUBLE_CLICK_INTERVAL_MS),
      pdMS_TO_TICKS(LONG_PRESS_TIME_MS) }

\* msg_send_key returns true: nothing was to send, or the queue had room.
SendSucceeds(out) ==
    \/ out = <<>>
    \/ out[1].queue = "led" /\ Len(led_queue) < MSG_QUEUE_LEN
    \/ out[1].queue = "pwm" /\ has_pwm_queue /\ Len(pwm_queue) < MSG_QUEUE_LEN

\* Ticks key_task spends inside msg_send_key: none when the message is
\* queued or the handle is NULL, the send timeout on a queue that stays full.
SendWait(out) ==
    IF \/ SendSucceeds(out)
       \/ out[1].queue = "pwm" /\ ~has_pwm_queue
    THEN 0
    ELSE pdMS_TO_TICKS(SEND_TIMEOUT_MS)

AfterSend_Checked(new, old, sent) == IF sent THEN new ELSE old

\* key_task does not look at what msg_send_key returns: the assignments
\* after the call are made whether the message was queued or not.
AfterSend(new, old, sent) == new

RememberedLevel_Stale(cur, last) == last

\* last_key_level = current_key_level, at the end of every pass
RememberedLevel(cur, last) == cur

\* One pass of while(1) in key_task: sample, switch, remember the level, sleep.
KeyPass(level, delay) ==
    /\ LET r0 == KeyStep(state, last_key_level, level, press_start_tick,
                         release_tick, long_press_sent, current_tick)
           r == [r0 EXCEPT
                   !.state = AfterSend(r0.state, state, SendSucceeds(r0.out)),
                   !.press_start_tick = AfterSend(r0.press_start_tick, press_start_tick,
                                                  SendSucceeds(r0.out)),
                   !.long_press_sent = AfterSend(r0.long_press_sent, long_press_sent,
                                                 SendSucceeds(r0.out))]
           logged == [i \in 1..Len(r.out) |->
                        [event |-> r.out[i].event, queue |-> r.out[i].queue,
                         tick |-> current_tick, poll |-> polls + 1]]
           falling == level = 0 /\ last_key_level = 1
       IN
       /\ state' = r.state
       /\ press_start_tick' = r.press_start_tick
       /\ release_tick' = r.release_tick
       /\ long_press_sent' = r.long_press_sent
       /\ led_queue' = QueueAfter(led_queue, "led", r.out)
       /\ pwm_queue' = IF has_pwm_queue
                       THEN QueueAfter(pwm_queue, "pwm", r.out)
                       ELSE pwm_queue
       /\ key_log' = key_log \o logged
       /\ press_mark' = IF falling THEN Len(key_log) + Len(logged) ELSE press_mark
       /\ gesture_mark' = IF r.state = "PRESSED" /\ state # "PRESSED"
                          THEN Len(key_log) + Len(logged)
                          ELSE gesture_mark
       /\ current_tick' = TickAdd(TickAdd(current_tick, SendWait(r.out)), delay)
    /\ last_key_level' = RememberedLevel(level, last_key_level)
    /\ polls' = polls + 1
    /\ UNCHANGED <<has_pwm_queue, servoVars, fabVars, wifiVars, extVars>>

\* A pass of the loop, in a behaviour of at most MaxPolls passes.
KeyScan(level, delay) ==
    /\ polls < MaxPolls
    /\ KeyPass(level, delay)

PollEnabled_Bounded == polls < MaxFairPolls

\* while (1): the loop never ends.  The fair behaviours of the model start
\* no new gesture after MaxFairPolls passes, and go on polling for as long
\* as the task is in WAIT_SECOND.
PollEnabled == polls < MaxFairPolls \/ state = "WAIT_SECOND"

KeyScanFair(level, delay) ==
    /\ PollEnabled
    /\ KeyPass(level, delay)

\* The locals of key_task at its start, the tick count being `tick`;
\* `present` tells whether key_task_create was given a pwm queue.
KeyInitAt(present, tick) ==
    /\ has_pwm_queue = present
    /\ state = "IDLE"
    /\ last_key_level = 1
    /\ press_start_tick = 0
    /\ release_tick = 0
    /\ long_press_sent = FALSE
    /\ current_tick = tick
    /\ led_queue = <<>>
    /\ pwm_queue = <<>>
    /\ polls = 0
    /\ key_log = <<>>
    /\ press_mark = 0
    /\ gesture_mark = 0

\* the tasks start with the scheduler, at tick 0
KeyInitWith(present) == KeyInitAt(present, 0)

\* app_main creates the key task with both queues.
KeyInit == KeyInitWith(TRUE)

KeyNext == \E level \in {0, 1}, delay \in ScanDelays : KeyScan(level, delay)

KeyFairNext == \E level \in {0, 1}, delay \in ScanDelays : KeyScanFair(level, delay)

(***************************************************************************)
(* servo_set_angle: the smooth move towards a target angle                 *)
(***************************************************************************)
StepTicks == pdMS_TO_TICKS(SERVO_STEP_DELAY_MS)

\* the range limit at the head of servo_set_angle
Clamp(angle) == IF angle > SERVO_MAX_ANGLE THEN SERVO_MAX_ANGLE ELSE angle

ServoStep_NoLimit(cur, target) ==
    IF cur < target
    THEN (cur + SERVO_STEP_ANGLE) % 256
    ELSE IF cur < SERVO_STEP_ANGLE THEN 0 ELSE cur - SERVO_STEP_ANGLE

\* One iteration of the while loop of servo_set_angle on the uint8_t
\* s_current_angle.
ServoStep(cur, target) ==
    IF cur < target
    THEN LET up == (cur + SERVO_STEP_ANGLE) % 256
         IN IF up > target THEN target ELSE up
    ELSE LET down == IF cur < SERVO_STEP_ANGLE THEN 0 ELSE cur - SERVO_STEP_ANGLE
         IN IF down < target THEN target ELSE down

(***************************************************************************)
(* The software timer s_close_door_timer.  The xTimer calls post a command *)
(* to the timer service task with block time 0: the command is lost when   *)
(* the command queue is full.                                              *)
(***************************************************************************)
TimerCommand(q, c) ==
    IF Len(q) < configTIMER_QUEUE_LENGTH THEN Append(q, c) ELSE q

xTimerStop(q) == TimerCommand(q, [cmd |-> "STOP", value |-> 0])

xTimerChangePeriod(q, period) ==
    TimerCommand(q, [cmd |-> "CHANGE_PERIOD", value |-> period])

\* the start command carries the tick count of the call
xTimerStart(q, now) == TimerCommand(q, [cmd |-> "START", value |-> now])

OpenPeriod_Ms == OPEN_TIME

\* pdMS_TO_TICKS(OPEN_TIME)
OpenPeriod == pdMS_TO_TICKS(OPEN_TIME)

\* the three timer calls at the end of open_door_non_blocking
OpenDoorTimerCmds(q, now) ==
    xTimerStart(xTimerChangePeriod(xTimerStop(q), OpenPeriod), now)

CloseDoorTimerCmds_NoStop(q) == q

\* the timer call at the head of close_door
CloseDoorTimerCmds(q) == xTimerStop(q)

\* The timer is active and its expiry time has been reached.
TimerExpired ==
    tmr_active /\ TickSub(current_tick, tmr_expiry) < TickModulus \div 2

\* ha_mqtt_publish_door_state(is_on) called by `who`
Publish(log, door, who) ==
    Append(log, [state |-> door, by |-> who, tick |-> current_tick])

(***************************************************************************)
(* The double-click counter of servo_task                                  *)
(***************************************************************************)
check_counter_timeout_Strict(counter, now) ==
    IF counter.count = 0
    THEN FALSE
    ELSE TickSub(now, counter.last_tick) > pdMS_TO_TICKS(DOUBLE_CLICK_RESET_TIMEOUT_MS)

check_counter_timeout(counter, now) ==
    IF counter.count = 0
    THEN FALSE
    ELSE TickSub(now, counter.last_tick) >= pdMS_TO_TICKS(DOUBLE_CLICK_RESET_TIMEOUT_MS)

\* count is a uint8_t
increment_counter(counter, now) ==
    [count |-> (counter.count + 1) % 256, last_tick |-> now]

reset_counter == [count |-> 0, last_tick |-> 0]

TriggerReached_Strict(count) == count > DOUBLE_CLICK_TRIGGER_COUNT

\* double_click_counter.count >= DOUBLE_CLICK_TRIGGER_COUNT
TriggerReached(count) == count >= DOUBLE_CLICK_TRIGGER_COUNT

\* The branch of servo_task for a key message with a DoubleClick event.
HandleDoubleClick(msg) ==
    LET c0 == [count |-> dcc_count, last_tick |-> dcc_last_tick]
        c1 == IF check_counter_timeout(c0, current_tick) THEN reset_counter ELSE c0
        c2 == increment_counter(c1, current_tick)
        fire == TriggerReached(c2.count)
        c3 == IF fire THEN reset_counter ELSE c2
    IN
    /\ dcc_count' = c3.count
    /\ dcc_last_tick' = c3.last_tick
    /\ wifi_queue' = IF fire
                     THEN msg_send_to_wifi(wifi_queue, "CLEAR_CREDENTIALS")
                     ELSE wifi_queue
    /\ quiet' = FALSE
    /\ UNCHANGED <<doorVars, taskVars, tmr_cmds>>

(***************************************************************************)
(* servo_task: the calls of servo_set_angle and what follows them          *)
(***************************************************************************)
\* servo_task comes back from servo_set_angle and runs the rest of the
\* function that called it.  `cmds` is the timer command queue and `cit` the
\* history flag as the caller left them before the call.
TaskReturn(pc, cmds, cit) ==
    /\ srv_pc' = "recv"
    /\ srv_target' = 0
    /\ srv_wake' = 0
    /\ IF pc = "open_move"
       THEN /\ s_door_open' = TRUE
            /\ mqtt_log' = Publish(mqtt_log, "open", "task")
            /\ tmr_cmds' = OpenDoorTimerCmds(cmds, current_tick)
            /\ armed_tick' = current_tick
            /\ quiet' = (tmr_pc = "wait" /\ ~tmr_active /\ cmds = <<>>)
            /\ close_in_time' = FALSE
       ELSE IF pc = "close_move"
       THEN /\ s_door_open' = FALSE
            /\ mqtt_log' = Publish(mqtt_log, "closed", "task")
            /\ tmr_cmds' = cmds
            /\ quiet' = FALSE
            /\ close_in_time' = cit
            /\ UNCHANGED armed_tick
       ELSE /\ tmr_cmds' = cmds
            /\ quiet' = FALSE
            /\ close_in_time' = cit
            /\ UNCHANGED <<s_door_open, mqtt_log, armed_tick>>

\* servo_task at the loop test of servo_set_angle: return when the target is
\* reached, else move one step and sleep for the step delay.
ServoLoop(target, pc, cmds, cit) ==
    IF s_current_angle = target
    THEN /\ TaskReturn(pc, cmds, cit)
         /\ UNCHANGED s_current_angle
    ELSE /\ s_current_angle' = ServoStep(s_current_angle, target)
         /\ srv_pc' = pc
         /\ srv_target' = target
         /\ srv_wake' = TickAdd(current_tick, StepTicks)
         /\ tmr_cmds' = cmds
         /\ quiet' = FALSE
         /\ close_in_time' = cit
         /\ UNCHANGED <<s_door_open, mqtt_log, armed_tick>>

open_door_non_blocking_MoveOnly ==
    ServoLoop(Clamp(SERVO_ANGLE_POS2), "set_move", tmr_cmds, close_in_time)

open_door_non_blocking ==
    ServoLoop(Clamp(SERVO_ANGLE_POS2), "open_move", tmr_cmds, close_in_time)

DoorToClose_Always(open) == TRUE

\* if (s_door_open) in close_door
DoorToClose(open) == open

close_door ==
    LET cmds == CloseDoorTimerCmds(tmr_cmds)
        in_time == tmr_pc = "wait" /\ ~TimerExpired
    IN
    IF DoorToClose(s_door_open)
    THEN ServoLoop(Clamp(SERVO_ANGLE_POS1), "close_move", cmds, in_time)
    ELSE /\ tmr_cmds' = cmds
         /\ quiet' = FALSE
         /\ UNCHANGED <<doorVars, taskVars>>

\* The branch of servo_task for PWM_EVENT_SET_ANGLE.
SetAngle(angle) ==
    ServoLoop(Clamp(IF angle > 180 THEN 180 ELSE angle), "set_move",
              tmr_cmds, close_in_time)

\* A message of a type servo_task does not know: logged and dropped.
ServoIgnore ==
    /\ quiet' = FALSE
    /\ UNCHANGED <<doorVars, taskVars, tmr_cmds>>

IsDoubleClickMsg_ButtonOnly(msg) ==
    msg.type = "KEY" /\ msg.event = "DOUBLE_CLICK" /\ msg.gpio_num = KEY_GPIO

\* msg.type == MSG_TYPE_KEY && msg.data.key.event == KEY_EVENT_DOUBLE_CLICK
IsDoubleClickMsg(msg) == msg.type = "KEY" /\ msg.event = "DOUBLE_CLICK"

\* The if-else chain of servo_task on the message it has received, up to the
\* next point where the task blocks.
ServoReact(msg) ==
    IF IsDoubleClickMsg(msg)
    THEN HandleDoubleClick(msg)
    ELSE /\ UNCHANGED <<dcc_count, dcc_last_tick, wifi_queue>>
         /\ IF msg.type = "KEY" /\ msg.event = "SINGLE_CLICK"
            THEN open_door_non_blocking
            ELSE IF msg.type = "PWM"
            THEN IF msg.event = "OPEN_DOOR"
                 THEN open_door_non_blocking
                 ELSE IF msg.event = "SET_ANGLE"
                 THEN SetAngle(msg.angle)
                 ELSE ServoIgnore
            ELSE IF msg.type = "MQTT"
            THEN IF msg.cmd = "DOOR_ON"
                 THEN open_door_non_blocking
                 ELSE IF msg.cmd = "DOOR_OFF"
                 THEN close_door
                 ELSE ServoIgnore
            ELSE ServoIgnore

\* The entry dcc_trace gets for a DoubleClick servo_task counts.
Traced(msg) ==
    LET c0 == [count |-> dcc_count, last_tick |-> dcc_last_tick]
        c1 == IF check_counter_timeout(c0, current_tick) THEN reset_counter ELSE c0
        c2 == increment_counter(c1, current_tick)
    IN [tick |-> current_tick, gpio_num |-> msg.gpio_num,
        reached |-> c2.count, sent |-> TriggerReached(c2.count)]

\* servo_task receives a message and handles it up to the next point where
\* it blocks.
ServoReceive ==
    /\ srv_pc = "recv"
    /\ pwm_queue # <<>>
    /\ pwm_queue' = Tail(pwm_queue)
    /\ ServoReact(Head(pwm_queue))
    /\ dcc_trace' = IF IsDoubleClickMsg(Head(pwm_queue))
                    THEN Append(dcc_trace, Traced(Head(pwm_queue)))
                    ELSE dcc_trace
    /\ UNCHANGED <<extVars, wifiVars, keyVars, fabVars, current_tick, timerVars, injected>>

\* servo_task wakes from the vTaskDelay inside servo_set_angle.
ServoMoveStep ==
    /\ srv_pc # "recv"
    /\ srv_wake = current_tick
    /\ ServoLoop(srv_target, srv_pc, tmr_cmds, close_in_time)
    /\ UNCHANGED <<extVars, wifiVars, keyVars, fabVars, current_tick, pwm_queue, counterVars, timerVars, injected>>

(***************************************************************************)
(* The timer service task and close_door_timer_callback                    *)
(***************************************************************************)
\* The expiry time a start command gives the timer.
StartExpiry(cmd_time, period) == TickAdd(cmd_time, period)

\* The timer service task takes one command from its queue.
TimerProcessCommand ==
    /\ tmr_pc = "wait"
    /\ tmr_cmds # <<>>
    /\ tmr_cmds' = Tail(tmr_cmds)
    /\ LET c == Head(tmr_cmds)
       IN
       IF c.cmd = "STOP"
       THEN /\ tmr_active' = FALSE
            /\ UNCHANGED <<tmr_expiry, tmr_period>>
       ELSE IF c.cmd = "CHANGE_PERIOD"
       THEN /\ tmr_period' = c.value
            /\ tmr_active' = TRUE
            /\ tmr_expiry' = StartExpiry(current_tick, c.value)
       ELSE /\ tmr_active' = TRUE
            /\ tmr_expiry' = StartExpiry(c.value, tmr_period)
            /\ UNCHANGED tmr_period
    /\ UNCHANGED <<extVars, wifiVars, keyVars, fabVars, current_tick, pwm_queue, counterVars, doorVars,
                   taskVars, tmr_pc, tmr_wake, injected, quiet>>

\* close_door_timer_callback at the loop test of its servo_set_angle call.
CallbackLoop ==
    IF s_current_angle = Clamp(SERVO_ANGLE_POS1)
    THEN /\ s_door_open' = FALSE
         /\ mqtt_log' = Publish(mqtt_log, "closed", "timer")
         /\ tmr_pc' = "wait"
         /\ tmr_wake' = 0
         /\ UNCHANGED s_current_angle
    ELSE /\ s_current_angle' = ServoStep(s_current_angle, Clamp(SERVO_ANGLE_POS1))
         /\ tmr_pc' = "cb_move"
         /\ tmr_wake' = TickAdd(current_tick, StepTicks)
         /\ UNCHANGED <<s_door_open, mqtt_log>>

\* The one-shot timer expires: the timer service task calls
\* close_door_timer_callback.
TimerExpire ==
    /\ tmr_pc = "wait"
    /\ TimerExpired
    /\ tmr_active' = FALSE
    /\ IF s_door_open
       THEN CallbackLoop
       ELSE UNCHANGED <<s_door_open, s_current_angle, mqtt_log, tmr_pc, tmr_wake>>
    /\ UNCHANGED <<extVars, wifiVars, keyVars, fabVars, current_tick, pwm_queue, counterVars, taskVars,
                   tmr_expiry, tmr_period, tmr_cmds, injected, quiet,
                   armed_tick, close_in_time>>

\* The callback wakes from the vTaskDelay inside servo_set_angle.
TimerCallbackStep ==
    /\ tmr_pc = "cb_move"
    /\ tmr_wake = current_tick
    /\ CallbackLoop
    /\ UNCHANGED <<extVars, wifiVars, keyVars, fabVars, current_tick, pwm_queue, counterVars, taskVars,
                   tmr_active, tmr_expiry, tmr_period, tmr_cmds, injected,
                   quiet, armed_tick, close_in_time>>

(***************************************************************************)
(* The producers of QUEUE_PWM                                              *)
(***************************************************************************)
Inject(queue) ==
    /\ injected < MaxMsgs
    /\ pwm_queue' = queue
    /\ injected' = injected + 1
    /\ UNCHANGED <<extVars, wifiVars, keyVars, fabVars, current_tick, counterVars, doorVars, taskVars,
                   timerVars, tmr_cmds, quiet>>

\* key_task reports a DoubleClick of the button
KeyDoubleClick == Inject(msg_send_key(pwm_queue, KEY_GPIO, "DOUBLE_CLICK"))

\* key_event_handler forwards a SingleClick of the button
key_event_handler == Inject(msg_send_key_event(pwm_queue, KEY_GPIO, "SINGLE_CLICK"))

\* the Bluetooth adapter has recognised its open command
handle_odtc_command == Inject(msg_send_key_event(pwm_queue, 0, "DOUBLE_CLICK"))

\* the MQTT adapter has received a door command
mqtt_door_callback ==
    \E cmd \in {"DOOR_ON", "DOOR_OFF"} : Inject(msg_send_mqtt_door_cmd(pwm_queue, cmd))

PwmOpenDoor == Inject(msg_send_pwm_open_door(pwm_queue))

\* Angles of the set-angle messages: one in range, one above the range.
SetAngles == {90, 200}

PwmSetAngle == \E angle \in SetAngles : Inject(msg_send_pwm_set_angle(pwm_queue, angle))

\* a message of a type servo_task has no branch for
SendOther == Inject(msg_queue_send(pwm_queue, LedMsg))

(***************************************************************************)
(* Time.  The tick count advances only when neither servo_task nor the     *)
(* timer service task is ready to run, and never past the next wake-up or  *)
(* expiry, nor past the last tick of the model.                            *)
(***************************************************************************)
TaskBlocked ==
    IF srv_pc = "recv" THEN pwm_queue = <<>> ELSE srv_wake # current_tick

DaemonBlocked ==
    IF tmr_pc = "wait"
    THEN tmr_cmds = <<>> /\ ~TimerExpired
    ELSE tmr_wake # current_tick

Deadlines ==
    (IF srv_pc # "recv" THEN {srv_wake} ELSE {})
    \cup (IF tmr_pc = "cb_move" THEN {tmr_wake} ELSE {})
    \cup (IF tmr_pc = "wait" /\ tmr_active THEN {tmr_expiry} ELSE {})

\* Idle time the model lets pass in one step when nothing is due earlier.
IdleDelays ==
    { pdMS_TO_TICKS(DOUBLE_CLICK_RESET_TIMEOUT_MS) - 1,
      pdMS_TO_TICKS(DOUBLE_CLICK_RESET_TIMEOUT_MS) }

Advance(delay) ==
    /\ TaskBlocked
    /\ DaemonBlocked
    /\ current_tick < MaxTime
    /\ LET due == {TickSub(t, current_tick) : t \in Deadlines}
                   \cup {MaxTime - current_tick}
           step == IF \E d \in due : d < delay
                   THEN CHOOSE d \in due : \A e \in due : d <= e
                   ELSE delay
       IN current_tick' = TickAdd(current_tick, step)
    /\ UNCHANGED <<extVars, wifiVars, keyVars, fabVars, pwm_queue, servoVars>>

ServoInit ==
    /\ dcc_count = 0
    /\ dcc_last_tick = 0
    /\ s_door_open = FALSE
    /\ s_current_angle = SERVO_ANGLE_POS1
    /\ srv_pc = "recv"
    /\ srv_target = 0
    /\ srv_wake = 0
    /\ wifi_queue = <<>>
    /\ tmr_active = FALSE
    /\ tmr_expiry = 0
    /\ tmr_period = OpenPeriod
    /\ tmr_cmds = <<>>
    /\ tmr_pc = "wait"
    /\ tmr_wake = 0
    /\ injected = 0
    /\ mqtt_log = <<>>
    /\ dcc_trace = <<>>
    /\ armed_tick = 0
    /\ quiet = FALSE
    /\ close_in_time = FALSE

ServoNext ==
    \/ KeyDoubleClick
    \/ key_event_handler
    \/ handle_odtc_command
    \/ mqtt_door_callback
    \/ PwmOpenDoor
    \/ PwmSetAngle
    \/ SendOther
    \/ ServoReceive
    \/ ServoMoveStep
    \/ TimerProcessCommand
    \/ TimerExpire
    \/ TimerCallbackStep
    \/ \E delay \in IdleDelays : Advance(delay)

\* servo_task, the timer service task and the producers of open and close
\* commands only: a SingleClick forwarded by key_event_handler, the PWM
\* open-door event, and the MQTT door commands.
DoorNext ==
    \/ key_event_handler
    \/ mqtt_door_callback
    \/ PwmOpenDoor
    \/ ServoReceive
    \/ ServoMoveStep
    \/ TimerProcessCommand
    \/ TimerExpire
    \/ TimerCallbackStep
    \/ \E delay \in IdleDelays : Advance(delay)

\* close_door_timer_callback is inside servo_set_angle and servo_task waits
\* for a message
CallbackMovesAlone == tmr_pc = "cb_move" /\ srv_pc = "recv"

\* Time in the behaviours that never end: the tick count runs on, wrapping
\* at TickModulus, for as long as a wake-up or an expiry is pending: tick by
\* tick while the callback moves alone, so that a command can arrive between
\* two of its steps, and from one wake-up or expiry to the next otherwise.
Elapse ==
    /\ TaskBlocked
    /\ DaemonBlocked
    /\ Deadlines # {}
    /\ LET due == {TickSub(t, current_tick) : t \in Deadlines}
       IN current_tick' =
             TickAdd(current_tick,
                     IF CallbackMovesAlone
                     THEN 1
                     ELSE CHOOSE d \in due : \A e \in due : d <= e)
    /\ UNCHANGED <<extVars, wifiVars, keyVars, fabVars, pwm_queue, servoVars>>

\* The open commands of the behaviours that never end: a first one, and
\* one that arrives when close_door_timer_callback has made the first step
\* of its move, on a tick between that step and the next.
RaceOpenDoor ==
    /\ \/ injected = 0
       \/ /\ CallbackMovesAlone
          /\ s_current_angle = SERVO_ANGLE_POS2 + SERVO_STEP_ANGLE
          /\ TickSub(tmr_wake, current_tick) \in 1..(StepTicks - 1)
    /\ PwmOpenDoor

\* servo_task and the timer service task with open commands, without an
\* end of time.
RaceNext ==
    \/ RaceOpenDoor
    \/ ServoReceive
    \/ ServoMoveStep
    \/ TimerProcessCommand
    \/ TimerExpire
    \/ TimerCallbackStep
    \/ Elapse

(***************************************************************************)
(* The message fabric: msg_queue_init, msg_queue_send and                  *)
(* msg_queue_receive on s_gener_queue.  app_main (the blink loop) and      *)
(* key_task send to it, led_task receives from it.                         *)
(***************************************************************************)

LED_RED_GPIO == 11

\* the largest TickType_t
portMAX_DELAY == TickModulus - 1

\* A queue handle: NULL, or a queue created with room for `length` messages.
NULL == [valid |-> FALSE, length |-> 0]

msg_queue_init_NoCheck(queue_len, heap_ok) ==
    IF heap_ok THEN [valid |-> TRUE, length |-> queue_len] ELSE NULL

\* heap_ok: xQueueCreate found the memory for the queue
msg_queue_init(queue_len, heap_ok) ==
    IF queue_len = 0 THEN NULL
    ELSE IF ~heap_ok THEN NULL
    ELSE [valid |-> TRUE, length |-> queue_len]

TicksToWait_Ms(timeout_ms) == timeout_ms

\* ticks_to_wait of msg_queue_send and msg_queue_receive
TicksToWait(timeout_ms) ==
    IF timeout_ms = portMAX_DELAY THEN portMAX_DELAY ELSE pdMS_TO_TICKS(timeout_ms)

\* msg_t of msg_send_led; data.led.state is kept in the cmd field
LedStateMsg(gpio, led) ==
    [LedMsg EXCEPT !.gpio_num = gpio, !.cmd = IF led = 1 THEN "LED_ON" ELSE "LED_OFF"]

\* xQueueSend finds a free slot
HasRoom(queue, waiting) == Len(waiting) < queue.length

CopyToBack_Overwrite(waiting, msg) ==
    IF waiting = <<>> THEN <<msg>> ELSE [waiting EXCEPT ![Len(waiting)] = msg]

\* xQueueSend copies the message behind the ones that wait (queueSEND_TO_BACK)
CopyToBack(waiting, msg) == Append(waiting, msg)

xQueueReceive_Newest(waiting) ==
    [msg |-> waiting[Len(waiting)], rest |-> SubSeq(waiting, 1, Len(waiting) - 1)]

\* xQueueReceive copies the oldest message out and frees its slot
xQueueReceive(waiting) == [msg |-> Head(waiting), rest |-> Tail(waiting)]

Producers == {"app_main", "key_task"}

Idle == [pc |-> "idle", msg |-> LedMsg, waited |-> 0]

coreNoWifi == <<keyVars, current_tick, pwm_queue, servoVars, extVars>>

coreVars == <<coreNoWifi, wifiVars>>

\* ---- app_main up to its main loop ----
\* Depths the model builds the queues with (MSG_QUEUE_LEN is the build's).
QueueLens == 0 .. MaxQueueLen

\* s_gener_queue = msg_queue_init(..); if NULL return
AppInitGener(queue_len, heap_ok) ==
    /\ app_pc = "init_gener"
    /\ gener_queue' = msg_queue_init(queue_len, heap_ok)
    /\ depths' = Append(depths, queue_len)
    /\ app_pc' = IF gener_queue'.valid THEN "init_action" ELSE "returned"
    /\ UNCHANGED <<coreVars, leds, action_queue, created, items, led_state, snd,
                   rcv_pc, rcv_waited, calls, sent_log, recv_log, drop_log>>

\* s_action_queue = msg_queue_init(..); if NULL return
AppInitAction(queue_len, heap_ok) ==
    /\ app_pc = "init_action"
    /\ action_queue' = msg_queue_init(queue_len, heap_ok)
    /\ depths' = Append(depths, queue_len)
    /\ app_pc' = IF action_queue'.valid THEN "create_led" ELSE "returned"
    /\ UNCHANGED <<coreVars, leds, gener_queue, created, items, led_state, snd,
                   rcv_pc, rcv_waited, calls, sent_log, recv_log, drop_log>>

\* led_task_create, pwm_task_create, key_task_create, in this order
AppCreateTask ==
    /\ app_pc \in {"create_led", "create_pwm", "create_key"}
    /\ created' = created \cup
          { CASE app_pc = "create_led" -> "led_task"
              [] app_pc = "create_pwm" -> "pwm_task"
              [] OTHER -> "key_task" }
    /\ app_pc' = CASE app_pc = "create_led" -> "create_pwm"
                   [] app_pc = "create_pwm" -> "create_key"
                   [] OTHER -> "loop"
    /\ UNCHANGED <<coreVars, leds, gener_queue, action_queue, items, led_state, snd,
                   rcv_pc, rcv_waited, depths, calls, sent_log, recv_log, drop_log>>

\* ---- msg_queue_send(s_gener_queue, &msg, SEND_TIMEOUT_MS) ----
\* The call, up to its return or to the point where xQueueSend blocks.
SendCall(p, msg) ==
    /\ calls < MaxSends
    /\ snd[p].pc = "idle"
    /\ calls' = calls + 1
    /\ IF ~gener_queue.valid
       THEN /\ drop_log' = Append(drop_log, [task |-> p, msg |-> msg, waited |-> 0])
            /\ UNCHANGED <<items, sent_log, snd>>
       ELSE IF HasRoom(gener_queue, items)
       THEN /\ items' = CopyToBack(items, msg)
            /\ sent_log' = Append(sent_log, msg)
            /\ UNCHANGED <<snd, drop_log>>
       ELSE IF TicksToWait(SEND_TIMEOUT_MS) = 0
       THEN /\ drop_log' = Append(drop_log, [task |-> p, msg |-> msg, waited |-> 0])
            /\ UNCHANGED <<items, sent_log, snd>>
       ELSE /\ snd' = [snd EXCEPT ![p] = [pc |-> "blocked", msg |-> msg, waited |-> 0]]
            /\ UNCHANGED <<items, sent_log, drop_log>>
    /\ UNCHANGED <<coreVars, leds, app_pc, gener_queue, action_queue, created,
                   rcv_pc, rcv_waited, depths, recv_log>>

\* the blink loop of app_main: led_state = !led_state; msg_send_led(..)
MainLoopSend ==
    /\ app_pc = "loop"
    /\ led_state' = 1 - led_state
    /\ SendCall("app_main", LedStateMsg(LED_RED_GPIO, 1 - led_state))

\* key_task reports a SingleClick or a LongPress: msg_send_key(led_queue, ..)
KeyTaskSend ==
    /\ "key_task" \in created
    /\ \E ev \in {"SINGLE_CLICK", "LONG_PRESS"} :
          SendCall("key_task", KeyMsg(KEY_GPIO, ev))
    /\ UNCHANGED led_state

\* a slot came free while xQueueSend was blocked: the send completes
SendResume(p) ==
    /\ snd[p].pc = "blocked"
    /\ HasRoom(gener_queue, items)
    /\ items' = CopyToBack(items, snd[p].msg)
    /\ sent_log' = Append(sent_log, snd[p].msg)
    /\ snd' = [snd EXCEPT ![p] = Idle]
    /\ UNCHANGED <<coreVars, leds, app_pc, gener_queue, action_queue, created, led_state,
                   rcv_pc, rcv_waited, depths, calls, recv_log, drop_log>>

\* ticks_to_wait have passed and the queue is still full: xQueueSend gives
\* up and msg_queue_send returns false
SendTimeout(p) ==
    /\ snd[p].pc = "blocked"
    /\ ~HasRoom(gener_queue, items)
    /\ snd[p].waited >= TicksToWait(SEND_TIMEOUT_MS)
    /\ drop_log' = Append(drop_log, [task |-> p, msg |-> snd[p].msg,
                                     waited |-> snd[p].waited])
    /\ snd' = [snd EXCEPT ![p] = Idle]
    /\ UNCHANGED <<coreVars, leds, app_pc, gener_queue, action_queue, created, items,
                   led_state, rcv_pc, rcv_waited, depths, calls, sent_log, recv_log>>

\* ---- led_task: msg_queue_receive(queue, &msg, portMAX_DELAY) ----
ReceiveCall ==
    /\ "led_task" \in created
    /\ rcv_pc = "run"
    /\ rcv_pc' = "recv"
    /\ rcv_waited' = 0
    /\ UNCHANGED <<coreVars, leds, app_pc, gener_queue, action_queue, created, items,
                   led_state, snd, depths, calls, sent_log, recv_log, drop_log>>

\* msg_queue_receive returns: with the oldest message, or with false when a
\* finite ticks_to_wait has passed on an empty queue
ReceiveReturn ==
    /\ rcv_pc = "recv"
    /\ IF items # <<>>
       THEN /\ items' = xQueueReceive(items).rest
            /\ recv_log' = Append(recv_log, xQueueReceive(items).msg)
       ELSE /\ TicksToWait(portMAX_DELAY) # portMAX_DELAY
            /\ rcv_waited >= TicksToWait(portMAX_DELAY)
            /\ UNCHANGED <<items, recv_log>>
    /\ rcv_pc' = "run"
    /\ UNCHANGED <<coreVars, leds, app_pc, gener_queue, action_queue, created, led_state,
                   snd, rcv_waited, depths, calls, sent_log, drop_log>>

\* Ticks the model lets pass in one step while a producer is blocked: half
\* the timeout of the senders, or all of it.
FabDelays == { 1, pdMS_TO_TICKS(SEND_TIMEOUT_MS) }

\* Time passes while a producer is blocked, at most up to the next timeout.
\* Nothing that is ready to run is waiting: no blocked send has room or has
\* timed out, and led_task is not inside a receive that has a message to
\* return.
FabTick(delay) ==
    /\ \E p \in Producers : snd[p].pc = "blocked"
    /\ \A p \in Producers :
          snd[p].pc = "blocked" =>
             /\ ~HasRoom(gener_queue, items)
             /\ snd[p].waited < TicksToWait(SEND_TIMEOUT_MS)
    /\ rcv_pc = "recv" => items = <<>>
    /\ LET due == { TicksToWait(SEND_TIMEOUT_MS) - snd[p].waited :
                      p \in { q \in Producers : snd[q].pc = "blocked" } }
           step == IF \E d \in due : d < delay
                   THEN CHOOSE d \in due : \A e \in due : d <= e
                   ELSE delay
       IN /\ snd' = [p \in Producers |->
                       IF snd[p].pc = "blocked"
                       THEN [snd[p] EXCEPT !.waited = snd[p].waited + step]
                       ELSE snd[p]]
          /\ rcv_waited' = IF rcv_pc = "recv"
                               /\ TicksToWait(portMAX_DELAY) # portMAX_DELAY
                            THEN rcv_waited + step
                            ELSE rcv_waited
    /\ UNCHANGED <<coreVars, leds, app_pc, gener_queue, action_queue, created, items,
                   led_state, rcv_pc, depths, calls, sent_log, recv_log, drop_log>>

FabInit ==
    /\ app_pc = "init_gener"
    /\ gener_queue = NULL
    /\ action_queue = NULL
    /\ created = {}
    /\ items = <<>>
    /\ led_state = 0
    /\ snd = [p \in Producers |-> Idle]
    /\ rcv_pc = "run"
    /\ rcv_waited = 0
    /\ depths = <<>>
    /\ calls = 0
    /\ sent_log = <<>>
    /\ recv_log = <<>>
    /\ drop_log = <<>>

FabNext ==
    \/ \E queue_len \in QueueLens, heap_ok \in BOOLEAN : AppInitGener(queue_len, heap_ok)
    \/ \E queue_len \in QueueLens, heap_ok \in BOOLEAN : AppInitAction(queue_len, heap_ok)
    \/ AppCreateTask
    \/ MainLoopSend
    \/ KeyTaskSend
    \/ \E p \in Producers : SendResume(p)
    \/ \E p \in Producers : SendTimeout(p)
    \/ ReceiveCall
    \/ ReceiveReturn
    \/ \E delay \in FabDelays : FabTick(delay)

(***************************************************************************)
(* Escalation with a slow consumer of QUEUE_WIFI: the button sends         *)
(* DoubleClicks, servo_task counts them and sends ClearCredentials, and    *)
(* the WiFi message task takes the commands at its own pace.               *)
(***************************************************************************)
\* key_task reports a DoubleClick of the button
ButtonDoubleClick ==
    /\ injected < MaxClicks
    /\ pwm_queue' = msg_send_key(pwm_queue, KEY_GPIO, "DOUBLE_CLICK")
    /\ injected' = injected + 1
    /\ UNCHANGED <<extVars, wifiVars, keyVars, fabVars, current_tick, counterVars, doorVars, taskVars,
                   timerVars, tmr_cmds, quiet>>

\* The counter as servo_task has it when it calls msg_send_to_wifi.
CounterAtSend ==
    LET c0 == [count |-> dcc_count, last_tick |-> dcc_last_tick]
        c1 == IF check_counter_timeout(c0, current_tick) THEN reset_counter ELSE c0
    IN increment_counter(c1, current_tick)

\* The next message makes servo_task send ClearCredentials to a full queue.
SendWouldBlock ==
    /\ pwm_queue # <<>>
    /\ Head(pwm_queue).type = "KEY"
    /\ Head(pwm_queue).event = "DOUBLE_CLICK"
    /\ TriggerReached(CounterAtSend.count)
    /\ Len(wifi_queue) >= MSG_QUEUE_LEN

CounterAfterSend_IfSent(sent, counter) == IF sent THEN reset_counter ELSE counter

\* reset_counter(&double_click_counter) after msg_send_to_wifi, whose result
\* is not looked at
CounterAfterSend(sent, counter) == reset_counter

\* servo_task receives a message.  A DoubleClick that reaches the trigger
\* while QUEUE_WIFI is full leaves the task blocked inside msg_send_to_wifi
\* for the timeout of the send; every other message is handled as in
\* ServoReceive.
EscalateReceive ==
    IF srv_pc = "recv" /\ SendWouldBlock
    THEN /\ pwm_queue' = Tail(pwm_queue)
         /\ dcc_count' = CounterAtSend.count
         /\ dcc_last_tick' = CounterAtSend.last_tick
         /\ dcc_trace' = Append(dcc_trace,
                                [tick |-> current_tick,
                                 gpio_num |-> Head(pwm_queue).gpio_num,
                                 reached |-> CounterAtSend.count, sent |-> FALSE])
         /\ srv_pc' = "wifi_send"
         /\ srv_wake' = TickAdd(current_tick, TicksToWait(SEND_TIMEOUT_MS))
         /\ quiet' = FALSE
         /\ UNCHANGED <<extVars, wifiVars, keyVars, fabVars, current_tick, wifi_queue, doorVars,
                        srv_target, timerVars, tmr_cmds, injected>>
    ELSE ServoReceive

\* msg_send_to_wifi returns: true when a slot came free in time, false when
\* the timeout has passed on the full queue.  servo_task resets the counter
\* and goes back to its receive.
EscalateSendReturn ==
    /\ srv_pc = "wifi_send"
    /\ Len(wifi_queue) < MSG_QUEUE_LEN \/ srv_wake = current_tick
    /\ LET sent == Len(wifi_queue) < MSG_QUEUE_LEN
           c == CounterAfterSend(sent, [count |-> dcc_count, last_tick |-> dcc_last_tick])
       IN /\ wifi_queue' = msg_send_to_wifi(wifi_queue, "CLEAR_CREDENTIALS")
          /\ dcc_count' = c.count
          /\ dcc_last_tick' = c.last_tick
          /\ dcc_trace' = [dcc_trace EXCEPT ![Len(dcc_trace)].sent = sent]
    /\ srv_pc' = "recv"
    /\ UNCHANGED <<extVars, wifiVars, keyVars, fabVars, current_tick, pwm_queue, doorVars,
                   srv_target, srv_wake, timerVars, tmr_cmds, injected, quiet>>

\* the WiFi message task takes the oldest command of QUEUE_WIFI
WifiTaskReceive ==
    /\ wifi_queue # <<>>
    /\ wifi_queue' = Tail(wifi_queue)
    /\ UNCHANGED <<extVars, wifiVars, keyVars, fabVars, current_tick, pwm_queue, dcc_count, dcc_last_tick,
                   dcc_trace, doorVars, taskVars, timerVars, tmr_cmds, injected, quiet>>

EscalateNext ==
    \/ ButtonDoubleClick
    \/ EscalateReceive
    \/ EscalateSendReturn
    \/ WifiTaskReceive
    \/ \E delay \in IdleDelays : Advance(delay)

(***************************************************************************)
(* led_task: the consumer of QUEUE_LED                                     *)
(***************************************************************************)
LED_GRE_GPIO == 12

LED_RED_ON == 0

LED_RED_OFF == 1

LED_GRE_ON == 1

LED_GRE_OFF == 0

LedPins == {LED_RED_GPIO, LED_GRE_GPIO}

\* gpio_set_level(gpio, level)
gpio_set_level(levels, gpio, level) ==
    IF gpio \in DOMAIN levels THEN [levels EXCEPT ![gpio] = level] ELSE levels

LedOther_TurnsOff(l) ==
    [l EXCEPT !.levels = [g \in LedPins |-> IF g = LED_RED_GPIO THEN LED_RED_OFF ELSE LED_GRE_OFF]]

\* the else branch of led_task: the message is logged and dropped
LedOther(l) == l

\* The if-else chain of led_task on the message it has received.
LedReact(l, msg) ==
    IF msg.type = "LED"
    THEN [l EXCEPT !.levels = gpio_set_level(l.levels, msg.gpio_num,
                                             IF msg.cmd = "LED_ON" THEN 1 ELSE 0)]
    ELSE IF msg.type = "KEY"
    THEN LET red == IF msg.event = "SINGLE_CLICK"
                    THEN (IF l.red_led_state = LED_RED_OFF THEN LED_RED_ON ELSE LED_RED_OFF)
                    ELSE l.red_led_state
             l1 == IF msg.event = "SINGLE_CLICK"
                   THEN [l EXCEPT !.red_led_state = red,
                                  !.levels = gpio_set_level(l.levels, LED_RED_GPIO, red)]
                   ELSE l
             green == IF msg.event = "LONG_PRESS"
                      THEN (IF l1.green_led_state = LED_GRE_OFF THEN LED_GRE_ON ELSE LED_GRE_OFF)
                      ELSE l1.green_led_state
         IN IF msg.event = "LONG_PRESS"
            THEN [l1 EXCEPT !.green_led_state = green,
                            !.levels = gpio_set_level(l1.levels, LED_GRE_GPIO, green)]
            ELSE l1
    ELSE LedOther(l)

\* A task sends a message to QUEUE_LED.
LedInject(queue) ==
    /\ injected < MaxMsgs
    /\ led_queue' = queue
    /\ injected' = injected + 1
    /\ UNCHANGED <<state, last_key_level, press_start_tick, release_tick,
                   long_press_sent, polls, key_log, press_mark, gesture_mark,
                   has_pwm_queue, wifiVars, extVars,
                   current_tick, pwm_queue, counterVars, doorVars, taskVars,
                   timerVars, tmr_cmds, quiet, fabVars>>

\* the blink loop of app_main: msg_send_led(.., LED_RED_GPIO, led_state)
BlinkSend ==
    \E level \in {0, 1} :
       LedInject(msg_queue_send(led_queue, LedStateMsg(LED_RED_GPIO, level)))

\* key_task reports a SingleClick or a LongPress of the button
KeyEventToLed ==
    \E ev \in {"SINGLE_CLICK", "LONG_PRESS"} :
       LedInject(msg_send_key(led_queue, KEY_GPIO, ev))

\* a message of a type led_task has no branch for
SendOtherToLed ==
    \E msg \in {PwmMsg("OPEN_DOOR", 0), MqttMsg("DOOR_ON")} :
       LedInject(msg_queue_send(led_queue, msg))

\* led_task receives a message and handles it.
LedReceive ==
    /\ led_queue # <<>>
    /\ led_queue' = Tail(led_queue)
    /\ leds' = LedReact(leds, Head(led_queue))
    /\ recv_log' = Append(recv_log, Head(led_queue))
    /\ UNCHANGED <<state, last_key_level, press_start_tick, release_tick,
                   long_press_sent, polls, key_log, press_mark, gesture_mark,
                   has_pwm_queue, wifiVars, extVars,
                   current_tick, pwm_queue, servoVars, app_pc, gener_queue,
                   action_queue, created, items, led_state, snd, rcv_pc,
                   rcv_waited, depths, calls, sent_log, drop_log>>

LedInit ==
    leds = [red_led_state |-> LED_RED_OFF, green_led_state |-> LED_GRE_ON,
           levels |-> [g \in LedPins |-> IF g = LED_RED_GPIO THEN LED_RED_OFF ELSE LED_GRE_ON]]

\* servo_task and led_task, each with its producers.
ConsumersNext ==
    \/ KeyDoubleClick
    \/ PwmOpenDoor
    \/ SendOther
    \/ ServoReceive
    \/ ServoMoveStep
    \/ TimerProcessCommand
    \/ TimerExpire
    \/ TimerCallbackStep
    \/ \E delay \in IdleDelays : Advance(delay)
    \/ BlinkSend
    \/ KeyEventToLed
    \/ SendOtherToLed
    \/ LedReceive

(***************************************************************************)
(* wifi_manager: the event group, event_handler, smartconfig_task,         *)
(* wifi_manager_clear_credentials, and mqtt_start_task of main.c           *)
(***************************************************************************)

MaxWifiEvents == 5

\* the bits of s_wifi_event_group
EventBits == {"CONNECTED_BIT", "ESPTOUCH_DONE_BIT", "SMARTCONFIG_RUNNING_BIT"}

\* the bits smartconfig_task waits for
ScWaitFor == {"CONNECTED_BIT", "ESPTOUCH_DONE_BIT"}

\* xClearOnExit = pdTRUE: the bits waited for are cleared when the wait ends
ClearOnExit(waited) == waited

\* (bits & CONNECTED_BIT) != 0; the event group exists once
\* wifi_manager_init has returned ESP_OK
wifi_manager_is_connected == "CONNECTED_BIT" \in wifi_bits

\* xEventGroupSetBits: the bits are set; a task blocked in
\* xEventGroupWaitBits for any of them is unblocked with the value the group
\* has now, and the bits it asked to clear on exit are cleared before
\* xEventGroupSetBits returns.
xEventGroupSetBits(set) ==
    LET now == wifi_bits \cup set
    IN
    IF sc_pc = "wait" /\ now \cap ScWaitFor # {}
    THEN /\ sc_pc' = "woken"
         /\ sc_uxBits' = now
         /\ wifi_bits' = now \ ClearOnExit(ScWaitFor)
    ELSE /\ wifi_bits' = now
         /\ UNCHANGED <<sc_pc, sc_uxBits>>

WifiEvent ==
    /\ wifi_events < MaxWifiEvents
    /\ wifi_events' = wifi_events + 1

\* WIFI_EVENT_STA_START: the SmartConfig task is created.
StaStart ==
    /\ sta = "down"
    /\ sta' = "idle"
    /\ sc_pc' = "start"
    /\ WifiEvent
    /\ UNCHANGED <<wifi_bits, sc_uxBits, mqtt_pc, coreNoWifi, fabVars>>

\* SC_EVENT_GOT_SSID_PSWD while SmartConfig runs: the station is configured
\* and esp_wifi_connect is called.
GotSsidPswd ==
    /\ sc_pc \in {"call", "wait", "woken"}
    /\ sta = "idle"
    /\ sta' = "connecting"
    /\ WifiEvent
    /\ UNCHANGED <<wifi_bits, sc_pc, sc_uxBits, mqtt_pc, coreNoWifi, fabVars>>

\* IP_EVENT_STA_GOT_IP: the station obtained an address.
GotIp ==
    /\ sta = "connecting"
    /\ sta' = "got_ip"
    /\ xEventGroupSetBits({"CONNECTED_BIT"})
    /\ WifiEvent
    /\ UNCHANGED <<mqtt_pc, coreNoWifi, fabVars>>

\* WIFI_EVENT_STA_DISCONNECTED: reconnect and clear the connected flag.
StaDisconnected ==
    /\ sta \in {"connecting", "got_ip"}
    /\ sta' = "connecting"
    /\ wifi_bits' = wifi_bits \ {"CONNECTED_BIT"}
    /\ WifiEvent
    /\ UNCHANGED <<sc_pc, sc_uxBits, mqtt_pc, coreNoWifi, fabVars>>

\* SC_EVENT_SEND_ACK_DONE: SmartConfig has acknowledged to the phone.
SendAckDone ==
    /\ sc_pc \in {"call", "wait", "woken"}
    /\ sta = "got_ip"
    /\ "ESPTOUCH_DONE_BIT" \notin wifi_bits
    /\ ("ESPTOUCH_DONE_BIT" \notin sc_uxBits \/ sc_pc # "woken")
    /\ xEventGroupSetBits({"ESPTOUCH_DONE_BIT"})
    /\ sta' = sta
    /\ WifiEvent
    /\ UNCHANGED <<mqtt_pc, coreNoWifi, fabVars>>

\* smartconfig_task up to its loop: the running flag is set and SmartConfig
\* is started.
ScStart ==
    /\ sc_pc = "start"
    /\ wifi_bits' = wifi_bits \cup {"SMARTCONFIG_RUNNING_BIT"}
    /\ sc_pc' = "call"
    /\ UNCHANGED <<sc_uxBits, sta, mqtt_pc, wifi_events, coreNoWifi, fabVars>>

\* smartconfig_task calls xEventGroupWaitBits(CONNECTED_BIT |
\* ESPTOUCH_DONE_BIT, pdTRUE, pdFALSE, portMAX_DELAY): it returns at once when
\* one of the bits is set, and blocks otherwise.
ScWaitBits ==
    /\ sc_pc = "call"
    /\ IF wifi_bits \cap ScWaitFor # {}
       THEN /\ sc_pc' = "woken"
            /\ sc_uxBits' = wifi_bits
            /\ wifi_bits' = wifi_bits \ ClearOnExit(ScWaitFor)
       ELSE /\ sc_pc' = "wait"
            /\ UNCHANGED <<sc_uxBits, wifi_bits>>
    /\ UNCHANGED <<sta, mqtt_pc, wifi_events, coreNoWifi, fabVars>>

\* smartconfig_task after the wait: on ESPTOUCH_DONE_BIT it stops SmartConfig,
\* clears the running flag and deletes itself; otherwise it waits again.
ScHandle ==
    /\ sc_pc = "woken"
    /\ IF "ESPTOUCH_DONE_BIT" \in sc_uxBits
       THEN /\ wifi_bits' = wifi_bits \ {"SMARTCONFIG_RUNNING_BIT"}
            /\ sc_pc' = "deleted"
       ELSE /\ sc_pc' = "call"
            /\ UNCHANGED wifi_bits
    /\ sc_uxBits' = {}
    /\ UNCHANGED <<sta, mqtt_pc, wifi_events, coreNoWifi, fabVars>>

\* wifi_manager_clear_credentials, called by wifi_msg_task on
\* WIFI_CMD_CLEAR_CREDENTIALS: a running SmartConfig task is deleted, the
\* station is disconnected, the connected flag is cleared and SmartConfig is
\* started again.
wifi_manager_clear_credentials ==
    /\ sta # "down"
    /\ wifi_bits' = IF sc_pc \in {"start", "call", "wait", "woken"}
                    THEN wifi_bits \ {"SMARTCONFIG_RUNNING_BIT", "CONNECTED_BIT"}
                    ELSE wifi_bits \ {"CONNECTED_BIT"}
    /\ sta' = "idle"
    /\ sc_pc' = "start"
    /\ sc_uxBits' = {}
    /\ WifiEvent
    /\ UNCHANGED <<mqtt_pc, coreNoWifi, fabVars>>

\* mqtt_start_task: while (!wifi_manager_is_connected()) vTaskDelay(500 ms);
\* then ha_mqtt_start().
MqttPoll ==
    /\ mqtt_pc = "poll"
    /\ mqtt_pc' = IF wifi_manager_is_connected THEN "started" ELSE "delay"
    /\ UNCHANGED <<wifi_bits, sc_pc, sc_uxBits, sta, wifi_events, coreNoWifi, fabVars>>

\* the vTaskDelay of mqtt_start_task ends
MqttDelayEnd ==
    /\ mqtt_pc = "delay"
    /\ mqtt_pc' = "poll"
    /\ UNCHANGED <<wifi_bits, sc_pc, sc_uxBits, sta, wifi_events, coreNoWifi, fabVars>>

WifiInit ==
    /\ wifi_bits = {}
    /\ sc_pc = "none"
    /\ sc_uxBits = {}
    /\ sta = "down"
    /\ mqtt_pc = "poll"
    /\ wifi_events = 0

smartconfig_task == ScStart \/ ScWaitBits \/ ScHandle

mqtt_start_task == MqttPoll \/ MqttDelayEnd

WifiNext ==
    \/ StaStart
    \/ GotSsidPswd
    \/ GotIp
    \/ StaDisconnected
    \/ SendAckDone
    \/ wifi_manager_clear_credentials
    \/ smartconfig_task
    \/ mqtt_start_task

(***************************************************************************)
(* servo_set_angle called by one task at a time                            *)
(***************************************************************************)

MaxMoves == 2

\* target_angle arguments (uint8_t): the ends of the range, the two door
\* positions, odd and even distances, and values above the range
MoveTargets == {0, 1, 80, 135, 179, 180, 181, 255}

\* every variable but those of the lone caller and of the Bluetooth parser
baseVars == <<keyVars, current_tick, pwm_queue, servoVars, fabVars, wifiVars>>

\* A task calls servo_set_angle(target).
MoveCall ==
    /\ mv_pc = "idle"
    /\ mv_calls < MaxMoves
    /\ \E target \in MoveTargets : mv_arg' = target
    /\ mv_pc' = "loop"
    /\ mv_calls' = mv_calls + 1
    /\ UNCHANGED <<baseVars, btVars>>

\* The loop test of servo_set_angle and one iteration: return when the
\* clamped target is reached, else one step and vTaskDelay.
MoveLoop ==
    /\ mv_pc = "loop"
    /\ IF s_current_angle = Clamp(mv_arg)
       THEN /\ mv_pc' = "idle"
            /\ UNCHANGED <<s_current_angle, current_tick>>
       ELSE /\ s_current_angle' = ServoStep(s_current_angle, Clamp(mv_arg))
            /\ current_tick' = TickAdd(current_tick, StepTicks)
            /\ mv_pc' = "loop"
    /\ UNCHANGED <<keyVars, pwm_queue, counterVars, s_door_open, mqtt_log,
                   armed_tick, close_in_time, taskVars, timerVars, tmr_cmds,
                   injected, quiet, fabVars, wifiVars, mv_arg, mv_calls, btVars>>

MoveInit ==
    /\ mv_pc = "idle"
    /\ mv_arg = 0
    /\ mv_calls = 0

MoveNext == MoveCall \/ MoveLoop

(***************************************************************************)
(* The Bluetooth adapter: gatt_svr_chr_access and parse_command            *)
(***************************************************************************)

MaxWrites == 4

BT_CMD_OPEN_DOOR == <<"O", "P", "E", "N">>

BT_CMD_MAX_LEN == 32

\* n bytes that are no part of the command
Filler(n) == [i \in 1..n |-> "x"]

\* The values written to the RX characteristic: nothing, the command in one
\* write and in two halves, 14 other bytes, and a write longer than the
\* 32-byte buffer of gatt_svr_chr_access that ends in the command.
BtWrites ==
    { <<>>,
      BT_CMD_OPEN_DOOR,
      <<"O", "P">>,
      <<"E", "N">>,
      Filler(14),
      Filler(BT_CMD_MAX_LEN - 3) \o BT_CMD_OPEN_DOOR }

\* if (s_cmd_buffer.len >= BT_CMD_MAX_LEN - 1): the buffer is emptied before
\* the byte is stored
BufferBeforeByte(buf) ==
    IF Len(buf) >= BT_CMD_MAX_LEN - 1 THEN <<>> ELSE buf

\* strncmp of the last 4 bytes of the buffer with BT_CMD_OPEN_DOOR
EndsWithCommand(buf) ==
    /\ Len(buf) >= 4
    /\ SubSeq(buf, Len(buf) - 3, Len(buf)) = BT_CMD_OPEN_DOOR

\* The body of the for loop of parse_command for the byte c: the buffer
\* after it and whether handle_odtc_command was called.
ParseByte(buf, c) ==
    LET stored == Append(BufferBeforeByte(buf), c)
    IN IF EndsWithCommand(stored)
       THEN [buffer |-> <<>>, hit |-> TRUE]
       ELSE [buffer |-> stored, hit |-> FALSE]

\* One iteration of the for loop of parse_command, from the buffer and the
\* number of handle_odtc_command calls before it to those after it.
ParseNext(before, c) ==
    LET one == ParseByte(before.buffer, c)
    IN [buffer |-> one.buffer,
        hits |-> before.hits + (IF one.hit THEN 1 ELSE 0)]

\* parse_command(data, len) on the buffer buf: the buffer after the call
\* and the number of handle_odtc_command calls made.  after[i] is the
\* state at the end of the iteration for data[i]; it is taken from a set of
\* one element so that after[i - 1] is evaluated once.
parse_command(buf, data) ==
    LET after[i \in 0..Len(data)] ==
            IF i = 0
            THEN [buffer |-> buf, hits |-> 0]
            ELSE CHOOSE r \in {ParseNext(before, data[i]) : before \in {after[i - 1]}} : TRUE
    IN after[Len(data)]

RECURSIVE OdtcSends(_, _)
\* QUEUE_PWM after n calls of handle_odtc_command
OdtcSends(queue, n) ==
    IF n = 0
    THEN queue
    ELSE OdtcSends(msg_send_key_event(queue, 0, "DOUBLE_CLICK"), n - 1)

\* if (len > sizeof(buf)) len = sizeof(buf); ble_hs_mbuf_to_flat
Flattened(data) ==
    IF Len(data) > BT_CMD_MAX_LEN THEN SubSeq(data, 1, BT_CMD_MAX_LEN) ELSE data

\* A write to the RX characteristic: gatt_svr_chr_access copies at most
\* BT_CMD_MAX_LEN bytes of it and hands them to parse_command.
gatt_svr_chr_access ==
    /\ bt_writes < MaxWrites
    /\ \E data \in BtWrites :
          LET r == parse_command(bt_buffer, Flattened(data))
          IN /\ bt_buffer' = r.buffer
             /\ bt_hits' = bt_hits + r.hits
             /\ bt_stream' = bt_stream \o data
             /\ pwm_queue' = OdtcSends(pwm_queue, r.hits)
    /\ bt_writes' = bt_writes + 1
    /\ UNCHANGED <<keyVars, current_tick, servoVars, fabVars, wifiVars, moveVars>>

BtNext == gatt_svr_chr_access

BtInit ==
    /\ bt_buffer = <<>>
    /\ bt_stream = <<>>
    /\ bt_hits = 0
    /\ bt_writes = 0

ExtInit == MoveInit /\ BtInit

Init == KeyInit /\ ServoInit /\ FabInit /\ LedInit /\ WifiInit /\ ExtInit

\* key_task_create accepts a NULL pwm_queue: the key task with or without it.
InitAnyPwmQueue ==
    /\ \E present \in BOOLEAN : KeyInitWith(present)
    /\ ServoInit /\ FabInit /\ LedInit /\ WifiInit /\ ExtInit

MaxWrapPolls == 8

\* Tick counts at which an idle system is looked at: shortly before the
\* tick count wraps.
WrapStarts == {TickModulus - 150}

\* The key task idle with the button released and the double-click counter
\* at 0, at one of these tick counts.
InitNearWrap ==
    /\ \E tick \in WrapStarts : KeyInitAt(TRUE, tick)
    /\ ServoInit /\ FabInit /\ LedInit /\ WifiInit /\ ExtInit

\* A pass of key_task, in a behaviour of at most MaxWrapPolls passes.
\* servo_task, ready as soon as a message is in its queue, has run before
\* the scan interval is over.
KeyScanWrap(level, delay) ==
    /\ polls < MaxWrapPolls
    /\ TaskBlocked
    /\ KeyPass(level, delay)

\* key_task polling the button and sending its DoubleClicks to QUEUE_PWM,
\* and servo_task counting them.
WrapNext ==
    \/ \E level \in {0, 1}, delay \in ScanDelays : KeyScanWrap(level, delay)
    \/ ServoReceive

SpecWrap == InitNearWrap /\ [][WrapNext]_vars

SpecKey == Init /\ [][KeyNext]_vars

\* key_task is never blocked for good: vTaskDelay returns after the scan
\* interval and the loop takes its next pass.
SpecKeyFair == Init /\ [][KeyFairNext]_vars /\ WF_vars(KeyFairNext)

SpecServo == Init /\ [][ServoNext]_vars

SpecFabric == Init /\ [][FabNext]_vars

SpecEscalate == Init /\ [][EscalateNext]_vars

SpecConsumers == Init /\ [][ConsumersNext]_vars

SpecKeyCreate == InitAnyPwmQueue /\ [][KeyNext]_vars

\* The key task with a LED queue that is full or has one free slot: the
\* blink messages of the main loop have piled up while led_task did not run.
InitLedQueueFull ==
    /\ has_pwm_queue = TRUE
    /\ state = "IDLE"
    /\ last_key_level = 1
    /\ press_start_tick = 0
    /\ release_tick = 0
    /\ long_press_sent = FALSE
    /\ current_tick = 0
    /\ \E n \in {MSG_QUEUE_LEN - 1, MSG_QUEUE_LEN} :
          led_queue = [i \in 1..n |-> LedStateMsg(LED_RED_GPIO, 1)]
    /\ pwm_queue = <<>>
    /\ polls = 0
    /\ key_log = <<>>
    /\ press_mark = 0
    /\ gesture_mark = 0
    /\ ServoInit /\ FabInit /\ LedInit /\ WifiInit /\ ExtInit

MaxLedRuns == 1

\* led_task, which let the queue fill up, gets to run: at most MaxLedRuns
\* times in a behaviour of the model.
LedTaskRuns ==
    /\ Len(recv_log) < MaxLedRuns
    /\ LedReceive

KeyDropNext == KeyFairNext \/ LedTaskRuns

SpecKeyDrop == InitLedQueueFull /\ [][KeyDropNext]_vars

SpecWifi == Init /\ [][WifiNext]_vars

SpecDoor == Init /\ [][DoorNext]_vars

\* A task that is ready runs, and the tick interrupt goes on counting.
SpecRace ==
    /\ Init
    /\ [][RaceNext]_vars
    /\ WF_vars(ServoReceive)
    /\ WF_vars(ServoMoveStep)
    /\ WF_vars(TimerProcessCommand)
    /\ WF_vars(TimerExpire)
    /\ WF_vars(TimerCallbackStep)
    /\ WF_vars(Elapse)

\* the calling task is scheduled whenever it is ready
SpecMove == Init /\ [][MoveNext]_vars /\ WF_vars(MoveLoop)

SpecBt == Init /\ [][BtNext]_vars

\* every task that is ready runs eventually
SpecWifiFair ==
    SpecWifi /\ WF_vars(smartconfig_task) /\ WF_vars(mqtt_start_task)

(***************************************************************************)
(* Properties of the gesture classifier                                    *)
(***************************************************************************)
LongTicks == pdMS_TO_TICKS(LONG_PRESS_TIME_MS)

WindowTicks == pdMS_TO_TICKS(DOUBLE_CLICK_INTERVAL_MS)

\* The step is a poll of the key task.
IsPoll == polls' = polls + 1

\* What the poll of this step sent.
Emitted == SubSeq(key_log', Len(key_log) + 1, Len(key_log'))

\* The entry key_log gets for an event sent by the poll of this step.
Sends(ev, queue) ==
    <<[event |-> ev, queue |-> queue, tick |-> current_tick, poll |-> polls + 1]>>

\* Number of LongPress events sent after the first m sends.
LongPressesSince(m) ==
    Cardinality({i \in (m + 1)..Len(key_log) : key_log[i].event = "LONG_PRESS"})

\* The events sent since the current gesture started.
GestureEvents ==
    [i \in 1..(Len(key_log) - gesture_mark) |-> key_log[gesture_mark + i].event]

\* C1: between the falling edge that starts a press and the next falling
\* edge (so also up to the rising edge in between) at most one LongPress is
\* sent, and long_press_sent, once set, is cleared only by a poll that
\* samples a falling edge and records it as a new press (state PRESSED,
\* press_start_tick the tick of that poll).
C1_AtMostOneLongPressPerPress ==
    [][ /\ LongPressesSince(press_mark)' <= 1
        /\ (long_press_sent /\ ~long_press_sent')
              => /\ last_key_level = 1 /\ last_key_level' = 0
                 /\ state' = "PRESSED"
                 /\ press_start_tick' = current_tick ]_vars

\* A press is held, its LongPress has been sent, and a later poll found the
\* key still held.
C1_Witness ==
    /\ state = "PRESSED" /\ long_press_sent
    /\ \E i \in (press_mark + 1)..Len(key_log) :
          key_log[i].event = "LONG_PRESS" /\ key_log[i].poll < polls

\* C2: a press released before the long-press time puts the classifier in
\* WAIT_SECOND without sending; a second press sampled no later than the
\* double-click window after that release (the boundary included) moves to
\* DOUBLE_PRESSED without sending; the poll that samples the second release
\* sends exactly one DoubleClick, to the pwm (actuator) queue and not to the
\* led queue, it is the only event of the gesture (no SingleClick for either
\* press), and the classifier is back in IDLE.
C2_DoubleClickOnSecondRelease ==
    [][ IsPoll =>
        /\ (/\ state = "PRESSED" /\ last_key_level = 0 /\ last_key_level' = 1
            /\ TickSub(current_tick, press_start_tick) < LongTicks)
              => /\ state' = "WAIT_SECOND"
                 /\ release_tick' = current_tick
                 /\ Emitted = <<>>
        /\ (/\ state = "WAIT_SECOND" /\ last_key_level = 1 /\ last_key_level' = 0
            /\ TickSub(current_tick, release_tick) <= WindowTicks)
              => /\ state' = "DOUBLE_PRESSED"
                 /\ Emitted = <<>>
        /\ (state = "DOUBLE_PRESSED" /\ last_key_level = 0 /\ last_key_level' = 1)
              => /\ Emitted = Sends("DOUBLE_CLICK", "pwm")
                 /\ pwm_queue' = Append(pwm_queue, KeyMsg(KEY_GPIO, "DOUBLE_CLICK"))
                 /\ led_queue' = led_queue
                 /\ GestureEvents' = <<"DOUBLE_CLICK">>
                 /\ state' = "IDLE" ]_vars

\* A double click whose second press came exactly at the end of the window
\* has been reported.
C2_Witness ==
    /\ state = "IDLE"
    /\ GestureEvents = <<"DOUBLE_CLICK">>
    /\ pwm_queue = <<KeyMsg(KEY_GPIO, "DOUBLE_CLICK")>>
    /\ TickSub(press_start_tick, release_tick) = WindowTicks

\* C3: WAIT_SECOND is entered only after a press shorter than the
\* long-press time; while the key stays released there, a poll whose elapsed
\* time since the release does not exceed the window sends nothing, and the
\* first poll whose elapsed time exceeds it sends exactly one SingleClick, to
\* the led (indicator) queue, goes to IDLE, and that SingleClick is the only
\* event of the gesture.
C3_SingleClickAfterWindow ==
    [][ IsPoll =>
        /\ state' = "WAIT_SECOND"
              => TickSub(release_tick', press_start_tick') < LongTicks
        /\ (state = "WAIT_SECOND" /\ last_key_level' = 1)
              => IF TickSub(current_tick, release_tick) > WindowTicks
                 THEN /\ Emitted = Sends("SINGLE_CLICK", "led")
                      /\ led_queue' = Append(led_queue, KeyMsg(KEY_GPIO, "SINGLE_CLICK"))
                      /\ pwm_queue' = pwm_queue
                      /\ GestureEvents' = <<"SINGLE_CLICK">>
                      /\ state' = "IDLE"
                 ELSE /\ Emitted = <<>>
                      /\ state' = "WAIT_SECOND" ]_vars

\* A single click has been reported by the timeout in WAIT_SECOND, after a
\* poll exactly at the end of the window had sent nothing.
C3_Witness ==
    /\ state = "IDLE"
    /\ GestureEvents = <<"SINGLE_CLICK">>
    /\ key_log[Len(key_log)].tick =
          TickAdd(release_tick, WindowTicks + pdMS_TO_TICKS(KEY_SCAN_INTERVAL_MS))
    /\ key_log[Len(key_log)].poll >= 4

\* C4: while a press is held in PRESSED, no poll before the long-press time
\* sends anything; the first poll at which the duration has reached the
\* long-press time sends exactly one LongPress (to the led queue) and later
\* polls of the same press send nothing; the release of a press whose
\* LongPress was sent leads to IDLE and sends nothing; WAIT_SECOND and
\* DOUBLE_PRESSED are never entered in a gesture that sent a LongPress, and a
\* press sampled in IDLE starts a fresh gesture in PRESSED.
C4_LongPressOnceThenIdle ==
    [][ IsPoll =>
        /\ (state = "PRESSED" /\ last_key_level' = 0)
              => /\ state' = "PRESSED"
                 /\ IF /\ TickSub(current_tick, press_start_tick) >= LongTicks
                       /\ LongPressesSince(press_mark) = 0
                    THEN /\ Emitted = Sends("LONG_PRESS", "led")
                         /\ led_queue' = Append(led_queue, KeyMsg(KEY_GPIO, "LONG_PRESS"))
                         /\ pwm_queue' = pwm_queue
                    ELSE Emitted = <<>>
        /\ (state = "PRESSED" /\ last_key_level' = 1 /\ LongPressesSince(press_mark) > 0)
              => /\ state' = "IDLE"
                 /\ Emitted = <<>>
        /\ state' \in {"WAIT_SECOND", "DOUBLE_PRESSED"}
              => LongPressesSince(gesture_mark)' = 0
        /\ (state = "IDLE" /\ last_key_level = 1 /\ last_key_level' = 0)
              => /\ state' = "PRESSED"
                 /\ press_start_tick' = current_tick
                 /\ ~long_press_sent'
                 /\ GestureEvents' = <<>> ]_vars

\* A press was held to exactly the long-press time, its LongPress was sent
\* at that poll, it was held on, released, and the key was pressed and
\* released again: the classifier waits for a second click of a new gesture.
C4_Witness ==
    /\ state = "WAIT_SECOND"
    /\ Len(key_log) = 1
    /\ key_log[1] = [event |-> "LONG_PRESS", queue |-> "led",
                     tick |-> LongTicks, poll |-> 2]
    /\ polls = 6


(***************************************************************************)
(* Properties of the servo task, its counter and its timer                 *)
(***************************************************************************)
TimeoutTicks == pdMS_TO_TICKS(DOUBLE_CLICK_RESET_TIMEOUT_MS)

ClearCredentials == WifiMsg("CLEAR_CREDENTIALS")

\* The step is servo_task receiving the message at the head of QUEUE_PWM.
IsReceive == srv_pc = "recv" /\ Len(pwm_queue') = Len(pwm_queue) - 1

Received == Head(pwm_queue)

IsDoubleClick(m) == m.type = "KEY" /\ m.event = "DOUBLE_CLICK"

\* The record of the DoubleClick handled by this step.
Counted == dcc_trace'[Len(dcc_trace')]

\* Who published 'closed' since the latest 'open' was published.
ClosedSinceOpen ==
    LET opens == {i \in 1..Len(mqtt_log) : mqtt_log[i].state = "open"}
        last == IF opens = {} THEN 0 ELSE CHOOSE i \in opens : \A j \in opens : j <= i
    IN [i \in 1..(Len(mqtt_log) - last) |-> mqtt_log[last + i].by]

\* The step is close_door_timer_callback publishing 'closed'.
TimerPublishesClosed ==
    /\ Len(mqtt_log') = Len(mqtt_log) + 1
    /\ mqtt_log'[Len(mqtt_log')].by = "timer"

\* The step is the timer service task taking the expiry of the timer.
IsExpire == tmr_pc = "wait" /\ tmr_active /\ ~tmr_active' /\ tmr_cmds' = tmr_cmds

\* The step is the callback moving the actuator.
TimerMoves == tmr_wake' # tmr_wake /\ s_current_angle' # s_current_angle

\* The deadline of the latest arming of the timer.
Deadline == TickAdd(armed_tick, pdMS_TO_TICKS(OPEN_TIME))

\* Ticks the smooth move between the two door positions takes.
MoveTicks ==
    StepTicks * ((SERVO_ANGLE_POS1 - SERVO_ANGLE_POS2 + SERVO_STEP_ANGLE - 1)
                    \div SERVO_STEP_ANGLE)

\* C5: when servo_task handles a DoubleClick while the counter holds one
\* DoubleClick counted less than the reset timeout ago, the counter reaches
\* the trigger count (2), exactly one ClearCredentials command is sent to the
\* wifi queue, and the counter is 0 when the handling ends.
C5_SecondDoubleClickEscalates ==
    [][ (/\ IsReceive /\ IsDoubleClick(Received)
         /\ dcc_count = 1
         /\ TickSub(current_tick, dcc_last_tick) < TimeoutTicks)
           => /\ Counted.reached = DOUBLE_CLICK_TRIGGER_COUNT
              /\ wifi_queue' = Append(wifi_queue, ClearCredentials)
              /\ dcc_count' = 0 ]_vars

\* Two DoubleClicks of the button were handled one tick less than the reset
\* timeout apart and the second one sent ClearCredentials.
C5_Witness ==
    /\ Len(dcc_trace) = 2
    /\ dcc_trace[1].gpio_num = KEY_GPIO /\ dcc_trace[2].gpio_num = KEY_GPIO
    /\ TickSub(dcc_trace[2].tick, dcc_trace[1].tick) = TimeoutTicks - 1
    /\ dcc_trace[2].reached = 2 /\ dcc_trace[2].sent
    /\ wifi_queue = <<ClearCredentials>>
    /\ dcc_count = 0

\* C6: when servo_task handles a DoubleClick at least the reset timeout
\* after the previously counted one, the counter is reset before the
\* increment, so it ends at 1 with the tick of this DoubleClick, and no
\* ClearCredentials command is sent.
C6_LateDoubleClickRestartsCount ==
    [][ (/\ IsReceive /\ IsDoubleClick(Received)
         /\ dcc_count >= 1
         /\ TickSub(current_tick, dcc_last_tick) >= TimeoutTicks)
           => /\ Counted.reached = 1
              /\ dcc_count' = 1
              /\ dcc_last_tick' = current_tick
              /\ wifi_queue' = wifi_queue ]_vars

\* Two DoubleClicks were handled exactly the reset timeout apart: the counter
\* is at 1 and nothing was sent.
C6_Witness ==
    /\ Len(dcc_trace) = 2
    /\ TickSub(dcc_trace[2].tick, dcc_trace[1].tick) = TimeoutTicks
    /\ dcc_trace[1].reached = 1 /\ dcc_trace[2].reached = 1
    /\ dcc_count = 1
    /\ wifi_queue = <<>>

\* C7: only a DoubleClick message of the button (gpio_num = KEY_GPIO)
\* changes the counter or sends ClearCredentials: handling any other message,
\* among them the open command of the Bluetooth adapter, the MQTT door
\* commands and the PWM open-door message, leaves the counter and the wifi
\* queue as they are.
C7_OnlyButtonDoubleClicksCount ==
    [][ (IsReceive /\ ~(IsDoubleClick(Received) /\ Received.gpio_num = KEY_GPIO))
           => /\ dcc_count' = dcc_count
              /\ wifi_queue' = wifi_queue ]_vars

\* C8: a Close handled after an open, while the timer service task waits
\* and the deadline has not been reached, cancels the timer: from then until
\* the next open ends the callback does not run and the timer path publishes
\* no 'closed', and when the Close has ended exactly one 'closed' has been
\* published for the opening, by the Close.
C8_CloseBeforeDeadlineCancels ==
    [][ /\ TimerPublishesClosed => ~close_in_time
        /\ close_in_time' => tmr_pc' = "wait"
        /\ (close_in_time' /\ srv_pc' = "recv") => ClosedSinceOpen' = <<"task">> ]_vars

\* A Close was handled one tick before the deadline, its move ran across
\* the deadline: only the Close has published 'closed'.
C8_Witness ==
    /\ close_in_time /\ srv_pc = "recv" /\ ~s_door_open
    /\ ClosedSinceOpen = <<"task">>
    /\ mqtt_log[Len(mqtt_log)].tick = TickAdd(Deadline, MoveTicks - 1)
    /\ tmr_cmds = <<>> /\ ~tmr_active

C10_CallbackSilentAfterClose ==
    [][ (\E i \in 1..Len(ClosedSinceOpen) : ClosedSinceOpen[i] = "task")
           => ~TimerPublishesClosed /\ ~TimerMoves ]_vars

\* The message is one of the triggers of the coordinator: a DoubleClick, or
\* an open command injected by an adapter.
IsTrigger(m) ==
    \/ IsDoubleClick(m)
    \/ m.type = "KEY" /\ m.event = "SINGLE_CLICK"
    \/ m.type = "PWM" /\ m.event = "OPEN_DOOR"
    \/ m.type = "MQTT" /\ m.cmd = "DOOR_ON"

\* The step ends the handling of a trigger message by servo_task.
TriggerHandled ==
    \/ IsReceive /\ IsTrigger(Received) /\ srv_pc' = "recv"
    \/ srv_pc = "open_move" /\ srv_pc' = "recv"

\* The open-door branch has ended in this step: the actuator is at the open
\* position, 'open' has been published and the timer has been restarted for
\* one open-duration from now.
OpenedAndArmed ==
    /\ s_current_angle' = SERVO_ANGLE_POS2
    /\ s_door_open'
    /\ mqtt_log' = Append(mqtt_log, [state |-> "open", by |-> "task",
                                     tick |-> current_tick])
    /\ tmr_cmds' = tmr_cmds \o
          << [cmd |-> "STOP", value |-> 0],
             [cmd |-> "CHANGE_PERIOD", value |-> pdMS_TO_TICKS(OPEN_TIME)],
             [cmd |-> "START", value |-> current_tick] >>

\* C11: when servo_task ends the handling of a trigger message (a
\* DoubleClick, or an open command), the actuator is at the open position,
\* 'open' has been published and the timer has been restarted for a full
\* open-duration from that moment, also when the door was open already.
C11_TriggerOpensAndArms ==
    [][ TriggerHandled => OpenedAndArmed ]_vars

\* The part of C11 the code keeps: the same for the open commands alone
\* (SingleClick, PWM open-door, MQTT door ON).
C11_OpenCommandOpensAndArms ==
    [][ (TriggerHandled /\ ~(IsReceive /\ IsDoubleClick(Received)))
           => OpenedAndArmed ]_vars

(***************************************************************************)
(* Routing of the classified events                                        *)
(***************************************************************************)
\* The channel the routing table names for an event of the button.
RoutingTable(ev) == IF ev = "DOUBLE_CLICK" THEN "pwm" ELSE "led"

\* The events of the button (gpio_num = KEY_GPIO) waiting in a queue.
ButtonEvents(queue) ==
    { queue[i].event : i \in { j \in DOMAIN queue :
                                 queue[j].type = "KEY" /\ queue[j].gpio_num = KEY_GPIO } }

\* C12: every event of the button is enqueued on the channel the routing
\* table names and on no other: each send of key_task goes to the queue of
\* the table, the indicator queue holds no DoubleClick of the button, and
\* the actuator queue holds no SingleClick or LongPress of the button.
C12_EventsOnTableChannel ==
    /\ \A i \in DOMAIN key_log : key_log[i].queue = RoutingTable(key_log[i].event)
    /\ \A ev \in ButtonEvents(led_queue) : RoutingTable(ev) = "led"
    /\ \A ev \in ButtonEvents(pwm_queue) : RoutingTable(ev) = "pwm"

(***************************************************************************)
(* Properties of the message fabric                                        *)
(***************************************************************************)
\* The timeout of the senders in ticks.
SendTimeoutTicks == (SEND_TIMEOUT_MS * configTICK_RATE_HZ) \div 1000

\* This step is a msg_queue_send returning false.
SendFailed == Len(drop_log') = Len(drop_log) + 1

\* C13: a msg_queue_send that finds the channel at capacity for the whole
\* timeout returns failure no later than the timeout: no send is blocked
\* for more than the timeout and the failing send has waited no longer;
\* its message is dropped: the channel holds what it held, the message is
\* not counted as sent, and the channel changes afterwards only through a
\* send that succeeds or a receive.
C13_FullChannelSendFailsInTime ==
    [][ /\ SendFailed =>
             /\ items' = items
             /\ Len(items) = gener_queue.length
             /\ sent_log' = sent_log
             /\ drop_log'[Len(drop_log')].waited <= SendTimeoutTicks
             /\ snd'[drop_log'[Len(drop_log')].task] = Idle
        /\ \A p \in Producers :
              snd'[p].pc = "blocked" => snd'[p].waited <= SendTimeoutTicks
        /\ items' # items => (sent_log' # sent_log \/ recv_log' # recv_log)
      ]_vars

\* A send has failed after the whole timeout on a full channel, and the
\* consumer has received a message after that.
C13_Witness ==
    /\ drop_log # <<>>
    /\ drop_log[1].waited = SendTimeoutTicks
    /\ Len(recv_log) + Len(items) = Len(sent_log)
    /\ recv_log # <<>>
    /\ calls = Len(sent_log) + 1

\* This step is msg_queue_receive returning to led_task.
ReceiveReturned == rcv_pc = "recv" /\ rcv_pc' = "run"

\* C14: msg_queue_receive returns the messages in the order in which their
\* sends completed (the n-th message returned is the n-th message whose
\* send returned true), and with portMAX_DELAY it returns only when the
\* channel holds a message, which it then returns.
C14_ReceiveInSendOrder ==
    [][ ReceiveReturned =>
           /\ items # <<>>
           /\ Len(recv_log') = Len(recv_log) + 1
           /\ recv_log'[Len(recv_log')] = sent_log[Len(recv_log')]
      ]_vars

\* Messages of both producers have been received, the later one after the
\* earlier one, and led_task is blocked in a receive on the empty channel.
C14_Witness ==
    /\ Len(recv_log) >= 2
    /\ recv_log[1].type # recv_log[2].type
    /\ rcv_pc = "recv"
    /\ items = <<>>
    /\ calls = MaxSends
    /\ \A p \in Producers : snd[p].pc = "idle"

\* Producers blocked inside xQueueSend.
BlockedProducers == { p \in Producers : snd[p].pc = "blocked" }

\* C15: with several producers sending to the channel concurrently, the
\* messages received followed by the messages still waiting are exactly the
\* messages whose send returned true, each once and unaltered, in the order
\* in which the sends completed; every call has either succeeded, failed or
\* is still blocked.
C15_NoLossNoDuplication ==
    /\ recv_log \o items = sent_log
    /\ Len(sent_log) + Len(drop_log) + Cardinality(BlockedProducers) = calls

\* Both producers are blocked on the full channel at the same time.
C15_Contention == Cardinality(BlockedProducers) = 2

\* Every call of both producers has succeeded on a channel of depth 1 and
\* every message has been received.
C15_Witness ==
    /\ gener_queue.length = 1
    /\ Len(recv_log) = MaxSends
    /\ \E i, j \in DOMAIN recv_log : recv_log[i].type = "LED" /\ recv_log[j].type = "KEY"
    /\ items = <<>>

(***************************************************************************)
(* Leaving WAIT_SECOND                                                     *)
(***************************************************************************)
\* C16: with the poll loop scheduled fairly, every stay in WAIT_SECOND ends
\* after finitely many polls, whatever levels are sampled, and the poll that
\* ends it does exactly one of two things: it sends one SingleClick (to the
\* led queue) and goes to IDLE or PRESSED, or it goes to DOUBLE_PRESSED and
\* sends nothing.
C16_WaitSecondIsLeft ==
    /\ (state = "WAIT_SECOND") ~> (state # "WAIT_SECOND")
    /\ [][ (state = "WAIT_SECOND" /\ state' # "WAIT_SECOND") =>
              \/ /\ Emitted = Sends("SINGLE_CLICK", "led")
                 /\ led_queue' = Append(led_queue, KeyMsg(KEY_GPIO, "SINGLE_CLICK"))
                 /\ pwm_queue' = pwm_queue
                 /\ state' \in {"IDLE", "PRESSED"}
              \/ /\ Emitted = <<>>
                 /\ led_queue' = led_queue
                 /\ pwm_queue' = pwm_queue
                 /\ state' = "DOUBLE_PRESSED" ]_vars

\* WAIT_SECOND has been left by the timeout after more than MaxFairPolls
\* polls, the key having stayed released.
C16_Witness ==
    /\ polls > MaxFairPolls + 2
    /\ state = "IDLE"
    /\ GestureEvents = <<"SINGLE_CLICK">>

\* C17: a pass of key_task's loop never suspends the task before its
\* vTaskDelay: key_task is never blocked inside the send of an event, also
\* when the queue the event goes to is full.
C17_ClassifierStepNeverBlocks == snd["key_task"].pc # "blocked"

\* key_task has spent the whole send timeout, ten scan intervals, blocked
\* inside msg_send_key.
C17_BlockedForTimeout ==
    /\ snd["key_task"].pc = "blocked"
    /\ snd["key_task"].waited = pdMS_TO_TICKS(SEND_TIMEOUT_MS)
    /\ pdMS_TO_TICKS(SEND_TIMEOUT_MS) = 10 * pdMS_TO_TICKS(KEY_SCAN_INTERVAL_MS)

(***************************************************************************)
(* Escalation when the send of ClearCredentials fails                      *)
(***************************************************************************)
\* This step is msg_send_to_wifi returning false to servo_task.
WifiSendFailed ==
    /\ srv_pc = "wifi_send"
    /\ srv_pc' = "recv"
    /\ wifi_queue' = wifi_queue

\* This step is msg_send_to_wifi returning to servo_task after a wait.
WifiSendReturned == srv_pc = "wifi_send" /\ srv_pc' = "recv"

\* C18: when msg_send_to_wifi returns, whether the command was enqueued or
\* the send failed on the full queue, servo_task has the counter at zero and
\* is back at its receive, and the position, the door state, the timer and
\* the messages waiting in QUEUE_PWM are as they were; a failed send has
\* kept servo_task for the timeout of the send and no longer.
C18_CounterResetWhateverTheSend ==
    [][ WifiSendReturned =>
           /\ dcc_count' = 0
           /\ dcc_last_tick' = 0
           /\ UNCHANGED <<s_door_open, s_current_angle, mqtt_log, timerVars,
                          tmr_cmds, pwm_queue>>
           /\ WifiSendFailed =>
                 /\ Len(wifi_queue) = MSG_QUEUE_LEN
                 /\ current_tick = srv_wake
      ]_vars

\* The send of ClearCredentials of the latest escalation has failed on the
\* full queue and servo_task is back at its receive with the counter at
\* zero.
C18_Witness ==
    /\ Len(wifi_queue) = MSG_QUEUE_LEN
    /\ dcc_trace # <<>>
    /\ dcc_trace[Len(dcc_trace)].reached = DOUBLE_CLICK_TRIGGER_COUNT
    /\ ~dcc_trace[Len(dcc_trace)].sent
    /\ dcc_count = 0
    /\ srv_pc = "recv"

(***************************************************************************)
(* The source of a message                                                 *)
(***************************************************************************)
\* gpio_num of the messages: the button, and 0 for the adapters.
SourceIds == {0, KEY_GPIO}

\* C19: what servo_task does with a message it receives is what it would
\* do with the same message carrying any other source id (gpio_num): the
\* next counter, position, door state, task position, timer commands and
\* published and sent messages are determined by the type and the
\* event/cmd of the message (with the angle of a set-angle command), so a
\* DoubleClick of an adapter and one of the button are handled alike.
C19_ReactionIgnoresSource ==
    [][ IsReceive =>
           \A g \in SourceIds : ServoReact([Received EXCEPT !.gpio_num = g]) ]_vars

\* A DoubleClick of the Bluetooth adapter followed by one of the button
\* have been counted as a pair and have escalated.
C19_Witness ==
    /\ Len(dcc_trace) = 2
    /\ dcc_trace[1].gpio_num = 0
    /\ dcc_trace[2].gpio_num = KEY_GPIO
    /\ dcc_trace[2].sent
    /\ wifi_queue = <<WifiMsg("CLEAR_CREDENTIALS")>>
    /\ dcc_count = 0

(***************************************************************************)
(* Startup                                                                 *)
(***************************************************************************)
\* C20: msg_queue_init with queue depth 0 returns no handle, and app_main
\* then returns without having created a task: after a queue was
\* initialised with depth 0 its handle is NULL, app_main has returned, no
\* later queue was initialised and no task exists; and a task exists only
\* when both queues have been created.
C20_ZeroDepthAbortsStartup ==
    /\ (Len(depths) >= 1 /\ depths[1] = 0) =>
          /\ ~gener_queue.valid
          /\ Len(depths) = 1
          /\ app_pc = "returned"
          /\ created = {}
    /\ (Len(depths) = 2 /\ depths[2] = 0) =>
          /\ ~action_queue.valid
          /\ app_pc = "returned"
          /\ created = {}
    /\ created # {} => (gener_queue.valid /\ action_queue.valid)

\* s_gener_queue was created and s_action_queue was initialised with depth
\* 0: app_main has returned.
C20_Witness ==
    /\ depths = <<MaxQueueLen, 0>>
    /\ gener_queue.valid
    /\ app_pc = "returned"

(***************************************************************************)
(* Messages a consumer does not recognise                                  *)
(***************************************************************************)
\* The step is led_task receiving the message at the head of QUEUE_LED.
IsLedReceive == Len(led_queue') = Len(led_queue) - 1

\* C21: a message whose type the consumer has no branch for changes nothing
\* of the consumer: servo_task keeps the angle, the door state, the timer
\* and its command queue, the counter, QUEUE_WIFI and the publications, and
\* is at its receive again with the messages behind the unknown one still
\* queued; led_task keeps its LED states and the pin levels and goes on with
\* the messages behind it.
C21_UnknownMessageChangesNothing ==
    [][ /\ (IsReceive /\ Received.type \notin {"KEY", "PWM", "MQTT"}) =>
              /\ UNCHANGED <<dcc_count, dcc_last_tick, wifi_queue, s_door_open,
                             s_current_angle, mqtt_log, timerVars, tmr_cmds>>
              /\ srv_pc' = "recv"
              /\ pwm_queue' = Tail(pwm_queue)
        /\ (IsLedReceive /\ Head(led_queue).type \notin {"LED", "KEY"}) =>
              /\ leds' = leds
              /\ led_queue' = Tail(led_queue)
      ]_vars

\* servo_task has dropped an unknown message (the second message was no
\* open command, no DoubleClick and did not go to led_task) with the door
\* open and the timer armed.
C21_Witness ==
    /\ s_door_open
    /\ tmr_active
    /\ Len(mqtt_log) = 1
    /\ injected >= 2
    /\ pwm_queue = <<>>
    /\ srv_pc = "recv"
    /\ tmr_cmds = <<>>
    /\ dcc_trace = <<>>
    /\ led_queue = <<>>
    /\ recv_log = <<>>
    /\ injected = Len(mqtt_log) + 1

\* led_task has switched the red LED on and has then dropped an unknown
\* message.
C21_LedWitness ==
    /\ Len(recv_log) = 2
    /\ recv_log[1] = KeyMsg(KEY_GPIO, "SINGLE_CLICK")
    /\ recv_log[2].type \notin {"LED", "KEY"}
    /\ leds.red_led_state = LED_RED_ON
    /\ leds.levels[LED_RED_GPIO] = LED_RED_ON

(***************************************************************************)
(* C22: a classifier without an actuator channel                           *)
(***************************************************************************)

\* the poll of this step sampled a rising edge
RisingEdge == last_key_level = 0 /\ last_key_level' = 1

\* this step called msg_send_key exactly once, with event ev for led_queue,
\* and the message was enqueued
ReportedToLed(ev) ==
    /\ Len(key_log') = Len(key_log) + 1
    /\ key_log'[Len(key_log')].event = ev
    /\ key_log'[Len(key_log')].queue = "led"
    /\ led_queue' = Append(led_queue, KeyMsg(KEY_GPIO, ev))

\* C22: a key task created without a pwm queue (params->pwm_queue == NULL)
\* calls msg_send_key for no DoubleClick: the release of the second press
\* takes it from DOUBLE_PRESSED to IDLE with no send at all, and it goes on
\* reporting SingleClick (window expired in WAIT_SECOND) and LongPress (held
\* for the long-press time) to led_queue.
C22_AbsentChannelSkipsSend ==
    [][ ~has_pwm_queue =>
          /\ (state = "DOUBLE_PRESSED" /\ RisingEdge) =>
                /\ state' = "IDLE"
                /\ key_log' = key_log
                /\ led_queue' = led_queue
          /\ pwm_queue' = <<>>
          /\ \A i \in 1..Len(key_log') : key_log'[i].event # "DOUBLE_CLICK"
          /\ ( /\ state = "WAIT_SECOND"
               /\ last_key_level' = 1
               /\ TickSub(current_tick, release_tick) >
                     pdMS_TO_TICKS(DOUBLE_CLICK_INTERVAL_MS) ) =>
                ReportedToLed("SINGLE_CLICK")
          /\ ( /\ state = "PRESSED"
               /\ last_key_level' = 0
               /\ ~long_press_sent
               /\ TickSub(current_tick, press_start_tick) >=
                     pdMS_TO_TICKS(LONG_PRESS_TIME_MS) ) =>
                ReportedToLed("LONG_PRESS")
      ]_vars

\* Without a pwm queue the key task has been through WAIT_SECOND (a release
\* was recorded) and left it without a SingleClick, that is by a second press
\* whose release was skipped, and has then reported a LongPress.
C22_Witness ==
    /\ ~has_pwm_queue
    /\ release_tick > 0
    /\ Len(key_log) = 1
    /\ key_log[1].event = "LONG_PRESS"
    /\ long_press_sent
    /\ led_queue = <<KeyMsg(KEY_GPIO, "LONG_PRESS")>>
    /\ pwm_queue = <<>>

(***************************************************************************)
(* C23: the connected flag and the SmartConfig task                        *)
(***************************************************************************)

\* C23: from the moment the station obtained an IP address until the next
\* disconnect or credential clear, wifi_manager_is_connected returns true,
\* whatever the SmartConfig task does with the event group.
C23_ConnectedWhileStationHasIp ==
    sta = "got_ip" => wifi_manager_is_connected

\* C23, consequence: once the station has an IP address, mqtt_start_task
\* starts the MQTT client unless the connection is lost first.
C23_MqttEventuallyStarts ==
    (sta = "got_ip") ~> (mqtt_pc = "started" \/ sta # "got_ip")

\* The station has an IP address, the SmartConfig task has taken the
\* connected bit with it out of its wait, and mqtt_start_task is polling.
C23_FlagLost ==
    /\ sta = "got_ip"
    /\ sc_pc = "woken"
    /\ "CONNECTED_BIT" \in sc_uxBits
    /\ ~wifi_manager_is_connected
    /\ mqtt_pc = "delay"

(***************************************************************************)
(* C24: a press that ends at or after the long-press time                  *)
(***************************************************************************)

\* C24: when key_task goes from PRESSED to IDLE on a rising edge whose press
\* duration is at least the long-press time, it has already called
\* msg_send_key with LONG_PRESS for this press (since its falling edge), so
\* the press does not end without an event.
C24_LongReleaseHasLongPress ==
    [][ ( /\ state = "PRESSED"
          /\ RisingEdge
          /\ TickSub(current_tick, press_start_tick) >=
                pdMS_TO_TICKS(LONG_PRESS_TIME_MS)
          /\ state' = "IDLE" ) =>
            /\ long_press_sent
            /\ \E i \in (press_mark + 1)..Len(key_log) :
                  key_log[i].event = "LONG_PRESS"
      ]_vars

\* A press has ended in IDLE at the long-press time with no msg_send_key call
\* at all.
C24_PressLost ==
    /\ state = "IDLE"
    /\ polls = 2
    /\ last_key_level = 1
    /\ press_start_tick = 0
    /\ current_tick >= pdMS_TO_TICKS(LONG_PRESS_TIME_MS)
    /\ key_log = <<>>

(***************************************************************************)
(* C25: a second press in WAIT_SECOND                                      *)
(***************************************************************************)

\* the poll of this step sampled a falling edge
FallingEdge == last_key_level = 1 /\ last_key_level' = 0

\* C25: in WAIT_SECOND a falling edge at most the double-click interval after
\* the release (the interval itself included) leads to DOUBLE_PRESSED with
\* no msg_send_key call; a later falling edge sends exactly one SINGLE_CLICK
\* to led_queue and leads to PRESSED with press_start_tick at the current
\* tick and long_press_sent false.
C25_SecondPressInWaitSecond ==
    [][ (state = "WAIT_SECOND" /\ FallingEdge) =>
          IF TickSub(current_tick, release_tick) <=
                pdMS_TO_TICKS(DOUBLE_CLICK_INTERVAL_MS)
          THEN /\ state' = "DOUBLE_PRESSED"
               /\ key_log' = key_log
               /\ led_queue' = led_queue
               /\ pwm_queue' = pwm_queue
          ELSE /\ state' = "PRESSED"
               /\ ReportedToLed("SINGLE_CLICK")
               /\ pwm_queue' = pwm_queue
               /\ press_start_tick' = current_tick
               /\ long_press_sent' = FALSE
      ]_vars

\* The first press was reported as a SingleClick by the falling edge of a late
\* second press (third poll), and the second press, held, has been reported
\* as a LongPress.
C25_Witness ==
    /\ Len(key_log) = 2
    /\ key_log[1].event = "SINGLE_CLICK"
    /\ key_log[1].poll = 3
    /\ key_log[2].event = "LONG_PRESS"
    /\ key_log[2].tick = TickAdd(key_log[1].tick, pdMS_TO_TICKS(LONG_PRESS_TIME_MS))
    /\ state = "PRESSED"
    /\ long_press_sent

(***************************************************************************)
(* C26: re-arming the close timer                                          *)
(***************************************************************************)

\* close_door_timer_callback starts closing the door in this step
AutomaticCloseStarts == tmr_pc = "wait" /\ s_door_open /\ tmr_active /\ ~tmr_active'
                        /\ tmr_cmds' = tmr_cmds

\* C26: the timer has one deadline; every open handled while the door is open
\* replaces it, so the automatic close starts one open duration (OPEN_TIME)
\* after the timer calls of the latest open, and not earlier.
C26_CloseOneOpenTimeAfterLastOpen ==
    [][ AutomaticCloseStarts =>
           current_tick = TickAdd(armed_tick, OpenPeriod)
      ]_vars

(***************************************************************************)
(* C27: a close command for a closed door                                  *)
(***************************************************************************)

\* the message is the close command (MQTT door OFF)
IsCloseCommand(m) == m.type = "MQTT" /\ m.cmd = "DOOR_OFF"

\* C27: servo_task receiving a close command while s_door_open is false
\* publishes nothing, moves nothing and stays ready for the next message; all
\* it does is post xTimerStop, which cancels the timer if it is armed.
C27_CloseWhenClosedOnlyStopsTimer ==
    [][ (IsReceive /\ IsCloseCommand(Received) /\ ~s_door_open) =>
          /\ mqtt_log' = mqtt_log
          /\ s_current_angle' = s_current_angle
          /\ s_door_open' = FALSE
          /\ srv_pc' = "recv"
          /\ UNCHANGED <<dcc_count, dcc_last_tick, wifi_queue, timerVars>>
          /\ tmr_cmds' = xTimerStop(tmr_cmds)
      ]_vars

\* A close command has been handled with the door closed from the start:
\* its stop command is waiting for the timer service task and nothing has
\* been published or moved.
C27_Witness ==
    /\ ~s_door_open
    /\ mqtt_log = <<>>
    /\ s_current_angle = SERVO_ANGLE_POS1
    /\ srv_pc = "recv"
    /\ pwm_queue = <<>>
    /\ tmr_cmds = <<[cmd |-> "STOP", value |-> 0]>>

(***************************************************************************)
(* C28: the range of the double-click counter                              *)
(***************************************************************************)

\* C28: whenever servo_task is at its receive, waiting for a message, the
\* double-click counter is at least 0 and below DOUBLE_CLICK_TRIGGER_COUNT:
\* a count that reached the trigger has been reset before the next receive.
C28_CounterBelowTriggerAtReceive ==
    srv_pc = "recv" =>
        /\ dcc_count >= 0
        /\ dcc_count < DOUBLE_CLICK_TRIGGER_COUNT

\* Two DoubleClicks have been handled, the second brought the count to the
\* trigger, and servo_task is back at its receive with the counter at zero.
C28_Witness ==
    /\ srv_pc = "recv"
    /\ pwm_queue = <<>>
    /\ Len(dcc_trace) = 2
    /\ dcc_trace[1].reached = DOUBLE_CLICK_TRIGGER_COUNT - 1
    /\ dcc_trace[2].reached = DOUBLE_CLICK_TRIGGER_COUNT
    /\ dcc_count = 0
    /\ dcc_last_tick = 0

(***************************************************************************)
(* C30: the press a SingleClick is reported for                            *)
(***************************************************************************)

\* this step called msg_send_key with SINGLE_CLICK
SingleClickSent ==
    /\ Len(key_log') = Len(key_log) + 1
    /\ key_log'[Len(key_log')].event = "SINGLE_CLICK"

\* C30: a SingleClick is reported only for a press that was released within
\* CLICK_MAX_TIME_MS (500 ms) of its start and was followed by no press
\* within the double-click interval (300 ms) after its release.
C30_SingleClickOnlyForShortPress ==
    [][ SingleClickSent =>
          /\ TickSub(release_tick, press_start_tick) <=
                pdMS_TO_TICKS(CLICK_MAX_TIME_MS)
          /\ TickSub(current_tick, release_tick) >
                pdMS_TO_TICKS(DOUBLE_CLICK_INTERVAL_MS)
      ]_vars

\* A press of 600 ms has been reported as a SingleClick.
C30_MediumPressReported ==
    /\ Len(key_log) = 1
    /\ key_log[1].event = "SINGLE_CLICK"
    /\ state = "IDLE"
    /\ press_start_tick = 0
    /\ release_tick = 2 * pdMS_TO_TICKS(DOUBLE_CLICK_INTERVAL_MS)

(***************************************************************************)
(* C29: a classifier event whose send times out                            *)
(***************************************************************************)

\* the event of the msg_send_key call of this step
SentEvent == key_log'[Len(key_log')].event

\* key_task called msg_send_key for led_queue in this step and the queue was
\* full for the whole timeout
LedSendTimedOut ==
    /\ Len(key_log') = Len(key_log) + 1
    /\ key_log'[Len(key_log')].queue = "led"
    /\ Len(led_queue) = MSG_QUEUE_LEN

\* the KEY messages of a queue
KeyMsgsOf(queue) == SelectSeq(queue, LAMBDA m : m.type = "KEY")

\* C29: when a send of key_task to led_queue times out, nothing is queued
\* and the task makes the transition it makes after a successful send: a
\* LONG_PRESS leaves long_press_sent set with the task in PRESSED, a
\* SINGLE_CLICK takes the task out of WAIT_SECOND.  The event is not sent
\* again: a KEY message enters led_queue only in the step of its
\* msg_send_key call, at most one per call, and no LONG_PRESS call is made
\* for a press whose long_press_sent is set.
C29_TimedOutEventIsDropped ==
    [][ /\ LedSendTimedOut =>
              /\ led_queue' = led_queue
              /\ SentEvent = "LONG_PRESS" =>
                    (state = "PRESSED" /\ state' = "PRESSED" /\ long_press_sent')
              /\ SentEvent = "SINGLE_CLICK" =>
                    (state = "WAIT_SECOND" /\ state' \in {"IDLE", "PRESSED"})
        /\ key_log' = key_log =>
              KeyMsgsOf(led_queue') \in
                  {KeyMsgsOf(led_queue)} \cup
                  (IF KeyMsgsOf(led_queue) # <<>>
                   THEN {Tail(KeyMsgsOf(led_queue))} ELSE {})
        /\ key_log' # key_log =>
              /\ Len(key_log') = Len(key_log) + 1
              /\ led_queue' \in {led_queue, Append(led_queue, KeyMsg(KEY_GPIO, SentEvent))}
        /\ (state = "PRESSED" /\ long_press_sent) => key_log' = key_log
      ]_vars

\* A LONG_PRESS was dropped on the full queue; led_task has since made
\* room, the key is still held, and the event is in no queue and was never
\* received.
C29_Witness ==
    /\ Len(key_log) = 1
    /\ key_log[1].event = "LONG_PRESS"
    /\ KeyMsgsOf(led_queue) = <<>>
    /\ KeyMsgsOf(recv_log) = <<>>
    /\ Len(led_queue) < MSG_QUEUE_LEN
    /\ state = "PRESSED"
    /\ long_press_sent
    /\ last_key_level = 0
    /\ polls >= 3

(***************************************************************************)
(* C31: servo_set_angle called by a single task                            *)
(***************************************************************************)

\* min(target, 180)
MinTarget(target) == IF target < 180 THEN target ELSE 180

Distance(a, b) == IF a < b THEN b - a ELSE a - b

C32_StateMatchesLastLevel ==
    /\ state \in {"PRESSED", "DOUBLE_PRESSED"} => last_key_level = 0
    /\ state \in {"IDLE", "WAIT_SECOND"} => last_key_level = 1
    /\ state \in {"IDLE", "PRESSED", "WAIT_SECOND", "DOUBLE_PRESSED"}

\* The second press of a double click is being held, after a release was
\* sampled in between.
C32_Witness ==
    /\ state = "DOUBLE_PRESSED"
    /\ last_key_level = 0
    /\ polls >= 4
    /\ release_tick # 0

(***************************************************************************)
(* C33: DOUBLE_PRESSED is silent until the release                         *)
(***************************************************************************)

\* C33: a pass of key_task in DOUBLE_PRESSED that samples the key pressed
\* calls msg_send_key for nothing and stays in DOUBLE_PRESSED, however long
\* the second press has lasted; the pass that samples the release sends
\* exactly one DOUBLE_CLICK, to the pwm queue, whatever the duration of the
\* second press, and goes to IDLE.
C33_DoublePressedSilentUntilRelease ==
    [][ (state = "DOUBLE_PRESSED" /\ has_pwm_queue) =>
          /\ last_key_level' = 0 =>
                /\ key_log' = key_log
                /\ led_queue' = led_queue
                /\ pwm_queue' = pwm_queue
                /\ state' = "DOUBLE_PRESSED"
          /\ last_key_level' = 1 =>
                /\ Len(key_log') = Len(key_log) + 1
                /\ key_log'[Len(key_log')].event = "DOUBLE_CLICK"
                /\ key_log'[Len(key_log')].queue = "pwm"
                /\ led_queue' = led_queue
                /\ pwm_queue' = Append(pwm_queue, KeyMsg(KEY_GPIO, "DOUBLE_CLICK"))
                /\ state' = "IDLE"
      ]_vars

\* A DOUBLE_CLICK was sent at the release of a second press that had been
\* held for the long-press time or more, and no LONG_PRESS was sent for it.
C33_Witness ==
    /\ state = "IDLE"
    /\ key_log # <<>>
    /\ key_log[Len(key_log)].event = "DOUBLE_CLICK"
    /\ TickSub(key_log[Len(key_log)].tick, press_start_tick) >=
          pdMS_TO_TICKS(LONG_PRESS_TIME_MS)
    /\ release_tick # 0
    /\ TickSub(press_start_tick, release_tick) <= pdMS_TO_TICKS(DOUBLE_CLICK_INTERVAL_MS)
    /\ \A i \in 1..Len(key_log) : key_log[i].event # "LONG_PRESS"

(***************************************************************************)
(* C35: s_door_open and the position of the actuator                       *)
(***************************************************************************)

\* neither servo_task nor close_door_timer_callback is inside servo_set_angle
NobodyMoving == srv_pc = "recv" /\ tmr_pc = "wait"

ConcurrentMoves ==
    /\ tmr_pc = "cb_move"
    /\ srv_pc # "recv"
    /\ srv_target # Clamp(SERVO_ANGLE_POS1)

\* C34: once the callback and servo_task are inside servo_set_angle at the
\* same time with different targets, both calls return.
C34_ConcurrentMovesReturn == ConcurrentMoves ~> NobodyMoving

\* The callback is closing the door and servo_task, handling an open
\* command, has started to move the other way.
C34_RaceReached ==
    /\ ConcurrentMoves
    /\ srv_pc = "open_move"
    /\ s_door_open
    /\ s_current_angle = SERVO_ANGLE_POS2

(***************************************************************************)
(* C36: the door does not stay open                                        *)
(***************************************************************************)

\* C36: once the open commands have stopped coming, the actuator comes to
\* rest at SERVO_ANGLE_POS1 and stays there.
C36_EventuallyRestsClosed ==
    <>[](NobodyMoving /\ s_current_angle = SERVO_ANGLE_POS1)

\* Both commands have been received, the one-shot timer has expired and no
\* timer command is pending, and the door is open.
C36_OpenWithoutTimer ==
    /\ injected = MaxMsgs
    /\ pwm_queue = <<>>
    /\ s_door_open
    /\ s_current_angle = SERVO_ANGLE_POS2
    /\ ~tmr_active
    /\ tmr_cmds = <<>>
    /\ current_tick > 2 * OpenPeriod

(***************************************************************************)
(* C37: the threshold comparisons and the wrap of the tick count           *)
(***************************************************************************)

\* the number of ticks counted from `stamp` to `now`, whether the tick
\* count has wrapped in between or not
TicksBetween(stamp, now) ==
    IF now >= stamp THEN now - stamp ELSE (TickModulus - stamp) + now

Occurrences(stream) ==
    Cardinality({i \in 1..(Len(stream) - 3) :
                    SubSeq(stream, i, i + 3) = BT_CMD_OPEN_DOOR})

\* C38: handle_odtc_command has been called once for every occurrence of
\* "OPEN" in the bytes written so far, and not otherwise.
C38_EveryOpenInjectsOnce == bt_hits = Occurrences(bt_stream)

\* 28 other bytes in two writes and then the command in one write: the
\* buffer is emptied when the N arrives and no call is made.
C38_CommandLostAtBufferReset ==
    /\ bt_stream = Filler(28) \o BT_CMD_OPEN_DOOR
    /\ bt_hits = 0
    /\ bt_buffer = <<"N">>

====
